---- MODULE Spec2Model ----
(***************************************************************************)
(* CW (Morse) decoder core of DigiFox: Codec/CW.                           *)
(*                                                                         *)
(*   audio -> envelope -> timing FSM -> pattern -> output filter -> text   *)
(*                                                                         *)
(* Characters are one-character strings, a C string is a sequence of       *)
(* them, and an output buffer is the sequence of bytes a call wrote.       *)
(***************************************************************************)
EXTENDS Integers, Sequences, FiniteSets, TLC

VARIABLES lk, flt, fop, decoder, last, calls, sig, acc

vars == <<lk, flt, fop, decoder, last, calls, sig, acc>>

(***************************************************************************)
(* morse_table.c                                                           *)
(***************************************************************************)

\* MORSE_TABLE, in source order (morse_lookup returns the first match).
MORSE_TABLE == <<
    [pattern |-> <<".">>, ch |-> "E", weight |-> 321],
    [pattern |-> <<"-">>, ch |-> "T", weight |-> 236],
    [pattern |-> <<".", ".">>, ch |-> "I", weight |-> 115],
    [pattern |-> <<".", "-">>, ch |-> "A", weight |-> 127],
    [pattern |-> <<"-", ".">>, ch |-> "N", weight |-> 103],
    [pattern |-> <<"-", "-">>, ch |-> "M", weight |-> 48],
    [pattern |-> <<".", ".", ".">>, ch |-> "S", weight |-> 101],
    [pattern |-> <<".", ".", "-">>, ch |-> "U", weight |-> 48],
    [pattern |-> <<".", "-", ".">>, ch |-> "R", weight |-> 84],
    [pattern |-> <<".", "-", "-">>, ch |-> "W", weight |-> 38],
    [pattern |-> <<"-", ".", ".">>, ch |-> "D", weight |-> 68],
    [pattern |-> <<"-", ".", "-">>, ch |-> "K", weight |-> 17],
    [pattern |-> <<"-", "-", ".">>, ch |-> "G", weight |-> 31],
    [pattern |-> <<"-", "-", "-">>, ch |-> "O", weight |-> 127],
    [pattern |-> <<".", ".", ".", ".">>, ch |-> "H", weight |-> 103],
    [pattern |-> <<".", ".", ".", "-">>, ch |-> "V", weight |-> 16],
    [pattern |-> <<".", ".", "-", ".">>, ch |-> "F", weight |-> 37],
    [pattern |-> <<".", "-", ".", ".">>, ch |-> "L", weight |-> 66],
    [pattern |-> <<".", "-", "-", ".">>, ch |-> "P", weight |-> 31],
    [pattern |-> <<".", "-", "-", "-">>, ch |-> "J", weight |-> 3],
    [pattern |-> <<"-", ".", ".", ".">>, ch |-> "B", weight |-> 25],
    [pattern |-> <<"-", ".", ".", "-">>, ch |-> "X", weight |-> 3],
    [pattern |-> <<"-", ".", "-", ".">>, ch |-> "C", weight |-> 44],
    [pattern |-> <<"-", ".", "-", "-">>, ch |-> "Y", weight |-> 32],
    [pattern |-> <<"-", "-", ".", ".">>, ch |-> "Z", weight |-> 2],
    [pattern |-> <<"-", "-", ".", "-">>, ch |-> "Q", weight |-> 2],
    [pattern |-> <<".", "-", "-", "-", "-">>, ch |-> "1", weight |-> 10],
    [pattern |-> <<".", ".", "-", "-", "-">>, ch |-> "2", weight |-> 10],
    [pattern |-> <<".", ".", ".", "-", "-">>, ch |-> "3", weight |-> 10],
    [pattern |-> <<".", ".", ".", ".", "-">>, ch |-> "4", weight |-> 10],
    [pattern |-> <<".", ".", ".", ".", ".">>, ch |-> "5", weight |-> 10],
    [pattern |-> <<"-", ".", ".", ".", ".">>, ch |-> "6", weight |-> 10],
    [pattern |-> <<"-", "-", ".", ".", ".">>, ch |-> "7", weight |-> 10],
    [pattern |-> <<"-", "-", "-", ".", ".">>, ch |-> "8", weight |-> 10],
    [pattern |-> <<"-", "-", "-", "-", ".">>, ch |-> "9", weight |-> 10],
    [pattern |-> <<"-", "-", "-", "-", "-">>, ch |-> "0", weight |-> 10],
    [pattern |-> <<".", "-", ".", "-", ".", "-">>, ch |-> ".", weight |-> 5],
    [pattern |-> <<"-", "-", ".", ".", "-", "-">>, ch |-> ",", weight |-> 5],
    [pattern |-> <<".", ".", "-", "-", ".", ".">>, ch |-> "?", weight |-> 5],
    [pattern |-> <<".", "-", "-", "-", "-", ".">>, ch |-> "'", weight |-> 3],
    [pattern |-> <<"-", ".", "-", ".", "-", "-">>, ch |-> "!", weight |-> 3],
    [pattern |-> <<"-", ".", ".", "-", ".">>, ch |-> "/", weight |-> 5],
    [pattern |-> <<"-", ".", "-", "-", ".">>, ch |-> "(", weight |-> 3],
    [pattern |-> <<"-", ".", "-", "-", ".", "-">>, ch |-> ")", weight |-> 3],
    [pattern |-> <<".", "-", ".", ".", ".">>, ch |-> "&", weight |-> 3],
    [pattern |-> <<"-", "-", "-", ".", ".", ".">>, ch |-> ":", weight |-> 3],
    [pattern |-> <<"-", ".", "-", ".", "-", ".">>, ch |-> ";", weight |-> 3],
    [pattern |-> <<"-", ".", ".", ".", "-">>, ch |-> "=", weight |-> 5],
    [pattern |-> <<".", "-", ".", "-", ".">>, ch |-> "+", weight |-> 3],
    [pattern |-> <<"-", ".", ".", ".", ".", "-">>, ch |-> "-", weight |-> 3],
    [pattern |-> <<".", ".", "-", "-", ".", "-">>, ch |-> "_", weight |-> 3],
    [pattern |-> <<".", "-", ".", ".", "-", ".">>, ch |-> "\"", weight |-> 3],
    [pattern |-> <<".", ".", ".", "-", ".", ".", "-">>, ch |-> "$", weight |-> 3],
    [pattern |-> <<".", "-", "-", ".", "-", ".">>, ch |-> "@", weight |-> 3]
>>

TABLE_SIZE == Len(MORSE_TABLE)

Min(a, b) == IF a < b THEN a ELSE b

Max(a, b) == IF a > b THEN a ELSE b

SetMin(S) == CHOOSE x \in S : \A y \in S : x <= y

SetMax(S) == CHOOSE x \in S : \A y \in S : x >= y

\* char morse_lookup(const char *pattern): '?' is also the "not found" value.
\* The table scan of morse_lookup: the ch of the first entry of table with
\* the pattern, '?' when there is none.
FirstWithPattern(table, pattern) ==
    IF \A i \in 1..Len(table) : table[i].pattern # pattern THEN "?"
    ELSE table[SetMin({i \in 1..Len(table) : table[i].pattern = pattern})].ch

morse_lookup(pattern) ==
    IF pattern = <<>> THEN "?" ELSE FirstWithPattern(MORSE_TABLE, pattern)

\* int morse_char_weight(char ch)
\* The table scan of morse_char_weight: the weight of the first entry of
\* table with the ch, 1 when there is none.
FirstWithChar(table, ch) ==
    IF \A i \in 1..Len(table) : table[i].ch # ch THEN 1
    ELSE table[SetMin({i \in 1..Len(table) : table[i].ch = ch})].weight

morse_char_weight(ch) == FirstWithChar(MORSE_TABLE, ch)

\* The comparison that replaces the best split so far: if (w > best_weight).
BetterSplit_min(w, best_weight) == best_weight < 0 \/ w < best_weight

BetterSplit(w, best_weight) == w > best_weight

\* The split loop of morse_lookup_merged from position pos on; best is
\* [weight, left, right] with weight -1 while no split has been accepted.
RECURSIVE SplitScan(_, _, _)

\* One split of the loop, lch and rch looked up and both found: w is the sum
\* of their weights.
SplitWeighed(pattern, pos, best, lch, rch, w) ==
    IF BetterSplit(w, best.weight)
    THEN SplitScan(pattern, pos + 1, [weight |-> w, left |-> lch, right |-> rch])
    ELSE SplitScan(pattern, pos + 1, best)

\* One split of the loop, lch and rch looked up.
SplitLookedUp(pattern, pos, best, lch, rch) ==
    IF lch # "?" /\ rch # "?"
    THEN SplitWeighed(pattern, pos, best, lch, rch,
                      morse_char_weight(lch) + morse_char_weight(rch))
    ELSE SplitScan(pattern, pos + 1, best)

SplitScan(pattern, pos, best) ==
    IF ~(pos < Len(pattern) /\ pos < 15) THEN best
    ELSE SplitLookedUp(pattern, pos, best,
                       morse_lookup(SubSeq(pattern, 1, pos)),
                       morse_lookup(SubSeq(pattern, pos + 1, Len(pattern))))

\* int morse_lookup_merged(pattern, out, out_len): the bytes written to out
\* (the return value is their number).
\* The end of morse_lookup_merged, best being the result of the split loop.
SplitEmitted(best, out_len) ==
    IF best.weight >= 0 /\ out_len >= 2 THEN <<best.left, best.right>>
    ELSE <<"?">>

\* morse_lookup_merged after the direct lookup returned direct.
DirectOrSplit(direct, pattern, out_len) ==
    IF direct # "?" THEN <<direct>>
    ELSE IF Len(pattern) <= 1 THEN <<"?">>
    ELSE SplitEmitted(SplitScan(pattern, 1,
                                [weight |-> -1, left |-> "", right |-> ""]),
                      out_len)

morse_lookup_merged(pattern, out_len) ==
    IF pattern = <<>> \/ out_len < 1 THEN <<>>
    ELSE DirectOrSplit(morse_lookup(pattern), pattern, out_len)

(***************************************************************************)
(* Floating point.  A float is modelled in fixed point: a log-duration, a   *)
(* covariance and a Kalman gain in units of 1/LnOne, an audio or envelope  *)
(* level in units of 1/AmpOne.  Products are rescaled with RDiv, which     *)
(* rounds to nearest.  logf of a sample count is read from LnTab; expf is  *)
(* never needed, because every use of it is a comparison with a sample     *)
(* count, which is made on the logarithms.                                 *)
(***************************************************************************)

LnOne == 1000

AmpOne == 100000

RDiv(a, b) == (a + (b \div 2)) \div b

Abs(a) == IF a < 0 THEN -a ELSE a

\* round(LnOne * ln d) for d = 1..256
LnTab == <<
    0, 693, 1099, 1386, 1609, 1792, 1946, 2079, 2197, 2303, 2398, 2485,
    2565, 2639, 2708, 2773, 2833, 2890, 2944, 2996, 3045, 3091, 3135, 3178,
    3219, 3258, 3296, 3332, 3367, 3401, 3434, 3466, 3497, 3526, 3555, 3584,
    3611, 3638, 3664, 3689, 3714, 3738, 3761, 3784, 3807, 3829, 3850, 3871,
    3892, 3912, 3932, 3951, 3970, 3989, 4007, 4025, 4043, 4060, 4078, 4094,
    4111, 4127, 4143, 4159, 4174, 4190, 4205, 4220, 4234, 4248, 4263, 4277,
    4290, 4304, 4317, 4331, 4344, 4357, 4369, 4382, 4394, 4407, 4419, 4431,
    4443, 4454, 4466, 4477, 4489, 4500, 4511, 4522, 4533, 4543, 4554, 4564,
    4575, 4585, 4595, 4605, 4615, 4625, 4635, 4644, 4654, 4663, 4673, 4682,
    4691, 4700, 4710, 4718, 4727, 4736, 4745, 4754, 4762, 4771, 4779, 4787,
    4796, 4804, 4812, 4820, 4828, 4836, 4844, 4852, 4860, 4868, 4875, 4883,
    4890, 4898, 4905, 4913, 4920, 4927, 4934, 4942, 4949, 4956, 4963, 4970,
    4977, 4984, 4990, 4997, 5004, 5011, 5017, 5024, 5030, 5037, 5043, 5050,
    5056, 5063, 5069, 5075, 5081, 5088, 5094, 5100, 5106, 5112, 5118, 5124,
    5130, 5136, 5142, 5147, 5153, 5159, 5165, 5170, 5176, 5182, 5187, 5193,
    5198, 5204, 5209, 5215, 5220, 5226, 5231, 5236, 5242, 5247, 5252, 5257,
    5263, 5268, 5273, 5278, 5283, 5288, 5293, 5298, 5303, 5308, 5313, 5318,
    5323, 5328, 5333, 5338, 5342, 5347, 5352, 5357, 5361, 5366, 5371, 5375,
    5380, 5384, 5389, 5394, 5398, 5403, 5407, 5412, 5416, 5421, 5425, 5429,
    5434, 5438, 5442, 5447, 5451, 5455, 5460, 5464, 5468, 5472, 5476, 5481,
    5485, 5489, 5493, 5497, 5501, 5505, 5509, 5513, 5517, 5521, 5525, 5529,
    5533, 5537, 5541, 5545
>>

\* logf(0) is -infinity
LnMinusInf == -1000000

\* logf((float)d) for a sample count d
LN(d) == IF d <= 0 THEN LnMinusInf ELSE LnTab[d]

\* (int)expf(y): the largest m >= 0 with ln m <= y
RECURSIVE FloorExpFrom(_, _)
FloorExpFrom(y, m) ==
    IF m + 1 <= Len(LnTab) /\ LN(m + 1) <= y THEN FloorExpFrom(y, m + 1) ELSE m

FloorExp(y) == FloorExpFrom(y, 0)

(***************************************************************************)
(* cw_config_t: the defaults of cw_config_init, at a sample rate of 50 Hz  *)
(* so that a dit at the initial 20 WPM lasts 3 samples.  Fractions are in  *)
(* per cent, times in milliseconds.                                        *)
(***************************************************************************)

cfg == [sample_rate |-> 50, center_freq |-> 700, bandwidth |-> 100,
        threshold_on |-> 50, threshold_off |-> 40,
        timing_mode |-> "KALMAN", envelope_mode |-> "MULTIPASS",
        initial_wpm |-> 20, min_wpm |-> 5, max_wpm |-> 60,
        envelope_window_ms |-> 5, min_element_ratio |-> 30,
        min_element_ms |-> 10, min_word_length |-> 2, multipass_passes |-> 3]

\* (1.2f / wpm) * sample_rate, a whole number of samples for the speeds used
DitSamples(sample_rate, wpm) == (12 * sample_rate) \div (10 * wpm)

(***************************************************************************)
(* kalman.c                                                                *)
(***************************************************************************)

KALMAN_STATES == 5

K_DIT == 0

K_DAH == 1

K_ELEM_SPACE == 2

K_CHAR_SPACE == 3

K_WORD_SPACE == 4

States == 0..(KALMAN_STATES - 1)

\* k->R = 0.1f
KalmanR == 100

\* k->Q[i] = 0.01f
KalmanQ == 10

\* P[i][i] = 0.1f in kalman_reset
KalmanP0 == 100

\* M_LN2, the innovation gate
M_LN2 == 693

\* void kalman_reset(kalman_t *k, float initial_wpm)
kalman_reset(k, initial_wpm) ==
    LET dit_samples == DitSamples(k.sample_rate, initial_wpm)
    IN  [k EXCEPT
           !.x = [i \in States |->
                    CASE i = K_DIT        -> LN(dit_samples)
                      [] i = K_DAH        -> LN(dit_samples * 3)
                      [] i = K_ELEM_SPACE -> LN(dit_samples)
                      [] i = K_CHAR_SPACE -> LN(dit_samples * 3)
                      [] i = K_WORD_SPACE -> LN(dit_samples * 7)],
           !.P = [i \in States |-> [j \in States |-> IF i = j THEN KalmanP0 ELSE 0]]]

\* a kalman_t after memset(k, 0, sizeof(*k))
KalmanZero ==
    [x |-> [i \in States |-> 0],
     P |-> [i \in States |-> [j \in States |-> 0]],
     Q |-> [i \in States |-> 0],
     R |-> 0, innovation_gate |-> 0, sample_rate |-> 0, min_wpm |-> 0, max_wpm |-> 0]

\* void kalman_init(k, sample_rate, initial_wpm, min_wpm, max_wpm)
kalman_init(sample_rate, initial_wpm, min_wpm, max_wpm) ==
    kalman_reset([KalmanZero EXCEPT !.Q = [i \in States |-> KalmanQ],
                                    !.R = KalmanR,
                                    !.innovation_gate = M_LN2,
                                    !.sample_rate = sample_rate,
                                    !.min_wpm = min_wpm,
                                    !.max_wpm = max_wpm], initial_wpm)

Clamp_none(v, lo, hi) == v

Clamp(v, lo, hi) == IF v < lo THEN (IF lo > hi THEN hi ELSE lo)
                    ELSE IF v > hi THEN hi ELSE v

\* static void apply_bounds(kalman_t *k)
\* apply_bounds once x[K_DIT] is clamped to ld: the other states are kept
\* within their ratios to the dit
BoundToDit(k, ld) ==
    [k EXCEPT
       !.x = [i \in States |->
                CASE i = K_DIT        -> ld
                  [] i = K_DAH        -> Clamp(k.x[i], ld + LN(2), ld + LN(4))
                  [] i = K_ELEM_SPACE -> Clamp(k.x[i], ld - M_LN2, ld + M_LN2)
                  [] i = K_CHAR_SPACE -> Clamp(k.x[i], ld + LN(2), ld + LN(4))
                  [] i = K_WORD_SPACE -> Clamp(k.x[i], ld + LN(5), ld + LN(9))]]

apply_bounds(k) ==
    BoundToDit(k, Clamp(k.x[K_DIT], LN(DitSamples(k.sample_rate, k.max_wpm)),
                                    LN(DitSamples(k.sample_rate, k.min_wpm))))

\* The Joseph-form covariance update of kalman_update with gain K, and the
\* process noise added on the diagonal
JosephForm(k, idx, K) ==
    [i \in States |-> [j \in States |->
        (k.P[i][j] - RDiv(K[i] * k.P[idx][j], LnOne))
          - RDiv(k.P[i][idx] * K[j], LnOne)
          + RDiv(K[i] * k.P[idx][idx] * K[j], LnOne * LnOne)
          + RDiv(K[i] * k.R * K[j], LnOne * LnOne)
          + (IF i = j THEN k.Q[i] ELSE 0)]]

\* kalman_update with gain K: state and covariance updated, bounds applied
GainUpdate(k, idx, innovation, K) ==
    apply_bounds([k EXCEPT
                    !.x = [i \in States |-> k.x[i] + RDiv(K[i] * innovation, LnOne)],
                    !.P = JosephForm(k, idx, K)])

KalmanGain_dense(k, idx) ==
    [i \in States |-> RDiv(k.P[idx][idx] * LnOne, Max(k.P[idx][idx] + k.R, 1))]

\* The Kalman gain K[i] = P[i][idx] / S with S = P[idx][idx] + R, at least
\* 1e-10f (one unit here)
KalmanGain(k, idx) ==
    [i \in States |-> RDiv(k.P[i][idx] * LnOne, Max(k.P[idx][idx] + k.R, 1))]

GatedUpdate_ungated(k, idx, innovation) ==
    [k |-> GainUpdate(k, idx, innovation, KalmanGain(k, idx)), accepted |-> 1]

\* kalman_update from the innovation gate on
GatedUpdate(k, idx, innovation) ==
    IF Abs(innovation) > k.innovation_gate THEN [k |-> k, accepted |-> 0]
    ELSE [k |-> GainUpdate(k, idx, innovation, KalmanGain(k, idx)), accepted |-> 1]

\* int kalman_update(k, state_idx, duration_samples): [k, accepted]
kalman_update(k, state_idx, duration_samples) ==
    IF state_idx < 0 \/ state_idx >= KALMAN_STATES THEN [k |-> k, accepted |-> 0]
    ELSE IF duration_samples <= 0 THEN [k |-> k, accepted |-> 0]
    ELSE GatedUpdate(k, state_idx, LN(duration_samples) - k.x[state_idx])

\* (float)dur < kalman_get_threshold(k, a, b) = expf((x[a] + x[b]) / 2)
BelowThreshold(k, dur, state_a, state_b) == 2 * LN(dur) < k.x[state_a] + k.x[state_b]

(***************************************************************************)
(* timing.c                                                                *)
(***************************************************************************)

TIMING_KALMAN_WARMUP == 8

ELEM_NONE == ""

ELEM_DIT == "."

ELEM_DAH == "-"

ELEM_CHAR == "C"

ELEM_WORD == "W"

\* void timing_init(t, mode, sample_rate, initial_wpm, min_wpm, max_wpm,
\*                  min_element_ratio, min_element_s)
\* avg_dit is in units of 1/LnOne samples; the EMA constants (alpha 0.1,
\* thresholds 2.0, 2.5 and 6.0 dits) are written where they are used.
timing_init(mode, sample_rate, initial_wpm, min_wpm, max_wpm, min_element_ratio, min_element_ms) ==
    [mode |-> mode,
     sample_rate |-> sample_rate,
     min_element_ratio |-> min_element_ratio,
     min_element_abs |-> (min_element_ms * sample_rate) \div 1000,
     avg_dit |-> DitSamples(sample_rate, initial_wpm) * LnOne,
     kalman |-> IF mode = "KALMAN"
                THEN kalman_init(sample_rate, initial_wpm, min_wpm, max_wpm)
                ELSE KalmanZero,
     on_dur |-> 0, off_dur |-> 0, prev_on |-> 0, seen_signal |-> 0,
     element_count |-> 0]

\* min_dur of classify_signal_kalman: (int)(expf(x[K_DIT]) * min_element_ratio),
\* raised to min_element_abs
MinDurKalman_none(t) == 0

MinDurKalman(t) ==
    Max(FloorExp(t.kalman.x[K_DIT] + LN(t.min_element_ratio) - LN(100)),
        t.min_element_abs)

\* static int classify_signal_kalman(timing_t *t, int dur): [t, elem]
\* classify_signal_kalman once the element is known to be state idx: the
\* count, the update after the warm-up, the result
SignalIs_nowarmup(t, dur, idx) ==
    [t |-> [t EXCEPT !.element_count = @ + 1,
                     !.kalman = kalman_update(@, idx, dur).k],
     elem |-> IF idx = K_DIT THEN ELEM_DIT ELSE ELEM_DAH]

SignalIs(t, dur, idx) ==
    [t |-> [t EXCEPT !.element_count = @ + 1,
                     !.kalman = IF t.element_count + 1 > TIMING_KALMAN_WARMUP
                                THEN kalman_update(@, idx, dur).k ELSE @],
     elem |-> IF idx = K_DIT THEN ELEM_DIT ELSE ELEM_DAH]

classify_signal_kalman(t, dur) ==
    IF dur < MinDurKalman(t) THEN [t |-> t, elem |-> ELEM_NONE]
    ELSE SignalIs(t, dur, IF BelowThreshold(t.kalman, dur, K_DIT, K_DAH)
                          THEN K_DIT ELSE K_DAH)

\* static int classify_signal_ema(timing_t *t, int dur): [t, elem]
classify_signal_ema(t, dur) ==
    LET min_dur == Max((t.avg_dit * t.min_element_ratio) \div (100 * LnOne),
                       t.min_element_abs)
    IN  IF dur < min_dur THEN [t |-> t, elem |-> ELEM_NONE]
        ELSE IF dur * LnOne < t.avg_dit * 2
             THEN [t |-> [t EXCEPT !.avg_dit = RDiv(9 * t.avg_dit + dur * LnOne, 10)],
                   elem |-> ELEM_DIT]
             ELSE [t |-> t, elem |-> ELEM_DAH]

\* static int classify_gap_kalman(timing_t *t, int dur): [t, elem]
\* classify_gap_kalman once the gap is known to be state idx: the update
\* after the warm-up, the result
GapIs(t, dur, idx) ==
    [t |-> [t EXCEPT !.kalman = IF t.element_count > TIMING_KALMAN_WARMUP
                                THEN kalman_update(@, idx, dur).k ELSE @],
     elem |-> CASE idx = K_WORD_SPACE -> ELEM_WORD
                [] idx = K_CHAR_SPACE -> ELEM_CHAR
                [] OTHER -> ELEM_NONE]

classify_gap_kalman(t, dur) ==
    GapIs(t, dur, IF ~BelowThreshold(t.kalman, dur, K_CHAR_SPACE, K_WORD_SPACE)
                  THEN K_WORD_SPACE
                  ELSE IF ~BelowThreshold(t.kalman, dur, K_ELEM_SPACE, K_CHAR_SPACE)
                       THEN K_CHAR_SPACE ELSE K_ELEM_SPACE)

\* static int classify_gap_ema(timing_t *t, int dur): [t, elem]
classify_gap_ema(t, dur) ==
    [t |-> t,
     elem |-> IF dur * LnOne >= t.avg_dit * 6 THEN ELEM_WORD
              ELSE IF dur * LnOne * 10 >= t.avg_dit * 25 THEN ELEM_CHAR
              ELSE ELEM_NONE]

classify_signal(t, dur) ==
    IF t.mode = "KALMAN" THEN classify_signal_kalman(t, dur)
    ELSE classify_signal_ema(t, dur)

classify_gap(t, dur) ==
    IF t.mode = "KALMAN" THEN classify_gap_kalman(t, dur)
    ELSE classify_gap_ema(t, dur)

CountSample_mark(t, on) == [t EXCEPT !.on_dur = @ + 1]

\* timing_process_sample: on_dur++ or off_dur++
CountSample(t, on) ==
    IF on = 1 THEN [t EXCEPT !.on_dur = @ + 1] ELSE [t EXCEPT !.off_dur = @ + 1]

SignalClassified_merge(c) ==
    [t |-> [c.t EXCEPT !.on_dur = 0,
                       !.seen_signal = IF c.elem = ELEM_NONE THEN @ ELSE 1],
     elem |-> c.elem]

\* timing_process_sample after classify_signal returned c
SignalClassified(c) ==
    [t |-> [c.t EXCEPT !.on_dur = 0, !.seen_signal = 1], elem |-> c.elem]

\* timing_process_sample, ON -> OFF transition: classify signal
SignalStage(t, on) ==
    IF t.prev_on = 1 /\ on = 0
    THEN SignalClassified(classify_signal(t, t.on_dur))
    ELSE [t |-> t, elem |-> ELEM_NONE]

\* timing_process_sample after classify_gap returned c: the gap result
\* overrides the pending result s.elem unless it is ELEM_NONE
GapClassified(c, s) ==
    [t |-> [c.t EXCEPT !.off_dur = 0],
     elem |-> IF c.elem # ELEM_NONE THEN c.elem ELSE s.elem]

\* timing_process_sample, OFF -> ON transition: classify gap
GapStage_falling(s, on) ==
    IF s.t.prev_on = 1 /\ on = 0
    THEN IF s.t.seen_signal = 1
         THEN GapClassified(classify_gap(s.t, s.t.off_dur), s)
         ELSE [t |-> [s.t EXCEPT !.off_dur = 0], elem |-> s.elem]
    ELSE s

GapStage_anyedge(s, on) ==
    IF s.t.prev_on # on
    THEN IF s.t.seen_signal = 1
         THEN GapClassified(classify_gap(s.t, s.t.off_dur), s)
         ELSE [t |-> [s.t EXCEPT !.off_dur = 0], elem |-> s.elem]
    ELSE s

GapStage_unseen(s, on) ==
    IF s.t.prev_on = 0 /\ on = 1
    THEN GapClassified(classify_gap(s.t, s.t.off_dur), s)
    ELSE s

GapStage(s, on) ==
    IF s.t.prev_on = 0 /\ on = 1
    THEN IF s.t.seen_signal = 1
         THEN GapClassified(classify_gap(s.t, s.t.off_dur), s)
         ELSE [t |-> [s.t EXCEPT !.off_dur = 0], elem |-> s.elem]
    ELSE s

\* timing_process_sample: t->prev_on = on; return result
LatchPrevOn(g, on) == [t |-> [g.t EXCEPT !.prev_on = on], elem |-> g.elem]

\* int timing_process_sample(timing_t *t, int on): [t, elem]
timing_process_sample(t, on) ==
    LatchPrevOn(GapStage(SignalStage(CountSample(t, on), on), on), on)

\* timing_finalize after classify_signal returned c
FinalClassified(c) == [t |-> [c.t EXCEPT !.on_dur = 0], elem |-> c.elem]

\* int timing_finalize(timing_t *t): [t, elem]
timing_finalize(t) ==
    IF t.on_dur > 0 /\ t.seen_signal = 1
    THEN FinalClassified(classify_signal(t, t.on_dur))
    ELSE [t |-> t, elem |-> ELEM_NONE]

\* void timing_reset(timing_t *t, float initial_wpm)
timing_reset_keep_count(t, initial_wpm) ==
    LET t1 == [t EXCEPT !.avg_dit = DitSamples(t.sample_rate, initial_wpm) * LnOne,
                        !.on_dur = 0, !.off_dur = 0, !.prev_on = 0,
                        !.seen_signal = 0]
    IN  IF t.mode = "KALMAN"
        THEN [t1 EXCEPT !.kalman = kalman_reset(t.kalman, initial_wpm)]
        ELSE t1

timing_reset(t, initial_wpm) ==
    LET t1 == [t EXCEPT !.avg_dit = DitSamples(t.sample_rate, initial_wpm) * LnOne,
                        !.on_dur = 0, !.off_dur = 0, !.prev_on = 0,
                        !.seen_signal = 0, !.element_count = 0]
    IN  IF t.mode = "KALMAN"
        THEN [t1 EXCEPT !.kalman = kalman_reset(t.kalman, initial_wpm)]
        ELSE t1

(***************************************************************************)
(* output_filter.c                                                         *)
(*                                                                         *)
(* output_filter_t is [word_buf, warmed_up, min_word_length]; word_len is   *)
(* Len(word_buf) (the bytes of word_buf beyond word_len are never read).    *)
(***************************************************************************)

OUTPUT_FILTER_MAX_WORD == 64

\* static int is_noise_char(char ch)
is_noise_char(ch) == ch \in {"E", "T", "I", "A", "N", "M", "?"}

\* void output_filter_init(output_filter_t *f, int min_word_length)
output_filter_init(min_word_length) ==
    [word_buf |-> <<>>, warmed_up |-> 0, min_word_length |-> min_word_length]

\* memcpy(out, word_buf, n) with n = word_len clamped to out_len
CopyWord_noclamp(word_buf, out_len) == word_buf

CopyWord_tail(word_buf, out_len) ==
    SubSeq(word_buf, Len(word_buf) - Min(Len(word_buf), out_len) + 1, Len(word_buf))

CopyWord(word_buf, out_len) == SubSeq(word_buf, 1, Min(Len(word_buf), out_len))

\* The warm-up test of emit_word: the word is a short run of noise-prone
\* characters.
SuppressWord_le(f) ==
    /\ Len(f.word_buf) <= f.min_word_length
    /\ \A i \in 1..Len(f.word_buf) : is_noise_char(f.word_buf[i])

SuppressWord(f) ==
    /\ Len(f.word_buf) < f.min_word_length
    /\ \A i \in 1..Len(f.word_buf) : is_noise_char(f.word_buf[i])

\* static int emit_word(f, out, out_len): [f, out] with out the bytes written.
emit_word(f, out_len) ==
    IF Len(f.word_buf) = 0 THEN [f |-> f, out |-> <<>>]
    ELSE IF f.warmed_up = 1 THEN [f |-> f, out |-> CopyWord(f.word_buf, out_len)]
    ELSE IF SuppressWord(f) THEN [f |-> f, out |-> <<>>]
    ELSE [f |-> [f EXCEPT !.warmed_up = 1], out |-> CopyWord(f.word_buf, out_len)]

\* The loop of output_filter_feed from text[i] on; out is what has been
\* written so far (written = Len(out)).
\* if (f->word_len < OUTPUT_FILTER_MAX_WORD - 1)
WordHasRoom_full(word_buf) == Len(word_buf) < OUTPUT_FILTER_MAX_WORD

WordHasRoom(word_buf) == Len(word_buf) < OUTPUT_FILTER_MAX_WORD - 1

RECURSIVE FeedLoop(_, _, _, _, _)

\* if (n > 0 && written < out_len) out[written++] = ' ': out holds the n
\* bytes of the word at its end
SpaceAfterWord_always(out, n, out_len) ==
    IF Len(out) < out_len THEN Append(out, " ") ELSE out

SpaceAfterWord_twice(out, n, out_len) ==
    IF n > 0 /\ Len(out) < out_len THEN out \o <<" ", " ">> ELSE out

SpaceAfterWord(out, n, out_len) ==
    IF n > 0 /\ Len(out) < out_len THEN Append(out, " ") ELSE out

WordEmitted_keep(e, text, i, out, out_len) ==
    FeedLoop([e.f EXCEPT !.word_buf = SubSeq(@, Len(e.out) + 1, Len(@))],
             text, i + 1,
             SpaceAfterWord(out \o e.out, Len(e.out), out_len), out_len)

\* The loop of output_filter_feed after emit_word returned e for a space at
\* text[i]
WordEmitted(e, text, i, out, out_len) ==
    FeedLoop([e.f EXCEPT !.word_buf = <<>>], text, i + 1,
             SpaceAfterWord(out \o e.out, Len(e.out), out_len), out_len)

FeedLoop(f, text, i, out, out_len) ==
    IF ~(i <= Len(text) /\ Len(out) < out_len) THEN [f |-> f, out |-> out]
    ELSE IF text[i] = " "
         THEN WordEmitted(emit_word(f, out_len - Len(out)), text, i, out, out_len)
         ELSE IF WordHasRoom(f.word_buf)
              THEN FeedLoop([f EXCEPT !.word_buf = Append(@, text[i])],
                            text, i + 1, out, out_len)
              ELSE FeedLoop(f, text, i + 1, out, out_len)

\* int output_filter_feed(f, text, text_len, out, out_len)
output_filter_feed(f, text, out_len) == FeedLoop(f, text, 1, <<>>, out_len)

\* int output_filter_flush(f, out, out_len)
output_filter_flush_unlatch(f, out_len) ==
    [f |-> [emit_word(f, out_len).f EXCEPT !.word_buf = <<>>, !.warmed_up = 0],
     out |-> emit_word(f, out_len).out]

\* output_filter_flush after emit_word returned e: f->word_len = 0
WordFlushed(e) == [f |-> [e.f EXCEPT !.word_buf = <<>>], out |-> e.out]

output_filter_flush(f, out_len) == WordFlushed(emit_word(f, out_len))

\* void output_filter_reset(output_filter_t *f)
output_filter_reset(f) == [f EXCEPT !.word_buf = <<>>, !.warmed_up = 0]

(***************************************************************************)
(* multipass_avg.c                                                         *)
(*                                                                         *)
(* multipass_avg_t is [n_passes, window_size, buffers, running_sum];       *)
(* buf_len[pass] is Len(buffers[pass]) (multipass_process never reads a    *)
(* buffer beyond buf_len).                                                 *)
(***************************************************************************)

MULTIPASS_MAX_PASSES == 8

MULTIPASS_MAX_WINDOW == 256

\* void multipass_init(multipass_avg_t *mp, int n_passes, int window_size)
multipass_init(n_passes, window_size) ==
    LET np == Min(Max(n_passes, 1), MULTIPASS_MAX_PASSES)
        w1 == Min(Max(window_size, 3), MULTIPASS_MAX_WINDOW)
        w  == IF w1 % 2 = 0 THEN w1 + 1 ELSE w1
    IN  [n_passes |-> np, window_size |-> w,
         buffers |-> [p \in 0..(MULTIPASS_MAX_PASSES - 1) |-> <<>>],
         running_sum |-> [p \in 0..(MULTIPASS_MAX_PASSES - 1) |-> 0]]

\* The sample loop of one pass, from data[i] on (i counts from 1).  data is
\* filtered in place, so a sample read back at or before i - 1 is already an
\* output of this pass.
RECURSIVE AvgLoop(_, _, _, _, _)
AvgLoop(data, i, sum, buf, w) ==
    IF i > Len(data) THEN [data |-> data, sum |-> sum]
    ELSE LET oldest_idx == (i - 1) - w
             buf_idx    == Len(buf) + oldest_idx
             oldest     == IF oldest_idx >= 0 THEN data[oldest_idx + 1]
                           ELSE IF buf_idx >= 0 /\ buf_idx < Len(buf)
                                THEN buf[buf_idx + 1]
                                ELSE data[1]
             sum1       == sum + data[i] - oldest
         IN  AvgLoop([data EXCEPT ![i] = RDiv(sum1, w)], i + 1, sum1, buf, w)

\* The buffer a pass keeps for the next chunk.
SaveBuffer(buf, data, w) ==
    LET n      == Len(data)
        save_n == Min(Min(w - 1, n), MULTIPASS_MAX_WINDOW)
        keep   == Max(Len(buf) - n, 0)
    IN  IF n >= w - 1 THEN SubSeq(data, n - save_n + 1, n)
        ELSE SubSeq(SubSeq(buf, Len(buf) - keep + 1, Len(buf)) \o data,
                    1, Min(keep + n, save_n))

\* The pass loop of multipass_process, from pass p on.
RECURSIVE PassLoop(_, _, _)

\* The end of pass p, whose sample loop returned r: the running sum and the
\* buffer are saved, and the next pass filters the output of this one.
PassSaved(mp, p, r) ==
    PassLoop([mp EXCEPT !.buffers[p] = SaveBuffer(@, r.data, mp.window_size),
                        !.running_sum[p] = r.sum],
             r.data, p + 1)

\* The sum pass p starts with: the first sample times w - 1 on a cold start,
\* else the saved running sum.
StartSum(mp, data, p) ==
    IF Len(mp.buffers[p]) = 0 /\ Len(data) > 0
    THEN data[1] * (mp.window_size - 1) ELSE mp.running_sum[p]

PassLoop(mp, data, p) ==
    IF p >= mp.n_passes THEN [mp |-> mp, data |-> data]
    ELSE PassSaved(mp, p, AvgLoop(data, 1, StartSum(mp, data, p),
                                  mp.buffers[p], mp.window_size))

\* void multipass_process(multipass_avg_t *mp, float *data, int n): [mp, data]
multipass_process(mp, data) == PassLoop(mp, data, 0)

\* void multipass_reset(multipass_avg_t *mp)
multipass_reset(mp) ==
    [mp EXCEPT !.buffers = [p \in DOMAIN mp.buffers |->
                              IF p < mp.n_passes THEN <<>> ELSE mp.buffers[p]],
               !.running_sum = [p \in DOMAIN mp.running_sum |->
                              IF p < mp.n_passes THEN 0 ELSE mp.running_sum[p]]]

(***************************************************************************)
(* envelope.c (multi-pass mode; the IIR low-pass mode is not modelled)     *)
(***************************************************************************)

\* The stack buffers of envelope_process and cw_decoder_process hold 4096
\* samples.
SEGMENT == 4096

\* The floor 1e-10f of both thresholds, below one unit of AmpOne: a level
\* reaches it iff it is positive.
ThresholdFloor == 1

\* (int)window_f of envelope_init, window_f = sample_rate / (cutoff * pi *
\* sqrtf(mp_passes)), cutoff = 1 / (2 * window_s): the largest k with
\* (k * cutoff)^2 * pi^2 * mp_passes <= sample_rate^2, from k on.
\* k <= fs / (cutoff * pi * sqrt(mp_passes)), compared by the squares
WindowFits(k, sample_rate, window_ms, mp_passes) ==
    (k * (1000 \div (2 * window_ms))) * (k * (1000 \div (2 * window_ms)))
        <= (sample_rate * sample_rate * 100) \div (987 * mp_passes)

WindowFrom(k, sample_rate, window_ms, mp_passes) ==
    CHOOSE j \in k..MULTIPASS_MAX_WINDOW :
        /\ j = k \/ WindowFits(j, sample_rate, window_ms, mp_passes)
        /\ j = MULTIPASS_MAX_WINDOW
           \/ ~WindowFits(j + 1, sample_rate, window_ms, mp_passes)

\* void envelope_init(env, sample_rate, window_s, thresh_on, thresh_off,
\*                    mode, mp_passes)
envelope_init(sample_rate, window_ms, thresh_on, thresh_off, mode, mp_passes) ==
    LET w0     == WindowFrom(0, sample_rate, window_ms, mp_passes)
        w1     == IF w0 < 5 THEN 5 ELSE w0
        window == IF w1 % 2 = 0 THEN w1 + 1 ELSE w1
    IN  [threshold_on |-> thresh_on, threshold_off |-> thresh_off,
         peak_level |-> 0, prev_state |-> 0, mode |-> mode,
         mpf |-> multipass_init(mp_passes, window)]

\* Step 4 of envelope_process, from tmp[i] on: the hysteresis.
\* state = (tmp[i] >= (state ? off_thr : on_thr)) ? 1 : 0, for level tmp[i]
NextState_strict(level, state, on_thr, off_thr) ==
    IF state = 1 THEN (IF level > off_thr THEN 1 ELSE 0)
    ELSE (IF level >= on_thr THEN 1 ELSE 0)

NextState(level, state, on_thr, off_thr) ==
    IF state = 1 THEN (IF level >= off_thr THEN 1 ELSE 0)
    ELSE (IF level >= on_thr THEN 1 ELSE 0)

\* on_off holds the states written so far, so the loop is at
\* i = Len(on_off) (counting from 0) and state is the last of them.
RECURSIVE Hysteresis(_, _, _, _, _)
Hysteresis(tmp, state, on_thr, off_thr, on_off) ==
    IF Len(on_off) >= Len(tmp) THEN [state |-> state, on_off |-> on_off]
    ELSE Hysteresis(tmp, NextState(tmp[Len(on_off) + 1], state, on_thr, off_thr),
                    on_thr, off_thr,
                    Append(on_off, NextState(tmp[Len(on_off) + 1], state,
                                             on_thr, off_thr)))

\* The peak tracker of envelope_process: the level after a segment whose
\* largest smoothed sample is chunk_peak.
TrackPeak(peak_level, chunk_peak) ==
    IF chunk_peak > peak_level THEN chunk_peak
    ELSE RDiv(995 * peak_level + 5 * chunk_peak, 1000)

\* One segment (at most 4096 samples) of envelope_process: [env, on_off]
\* Step 1: tmp[i] = fabsf(audio[i])
Rectify(audio) == [i \in 1..Len(audio) |-> Abs(audio[i])]

\* Step 3: the largest smoothed sample of the segment (chunk_peak starts at 0)
ChunkPeak(tmp) == SetMax({0} \cup {tmp[i] : i \in 1..Len(tmp)})

\* peak_level * threshold
PeakTimes(peak, percent) == RDiv(peak * percent, 100)

\* on_thr and off_thr: peak_level * threshold, at least the floor; floor is
\* 1e-10f in the unit the levels are counted in
ThresholdAt(peak, percent, floor) == Max(PeakTimes(peak, percent), floor)

Threshold(peak, percent) == ThresholdAt(peak, percent, ThresholdFloor)

\* The end of a segment whose hysteresis returned h: the state of env saved
SegmentDone(env, mp, peak, h) ==
    [env |-> [env EXCEPT !.mpf = mp, !.peak_level = peak, !.prev_state = h.state],
     on_off |-> h.on_off]

\* Step 4 on the smoothed segment m.data with peak level peak
SegmentTrackedAt(env, m, peak, floor) ==
    SegmentDone(env, m.mp, peak,
                Hysteresis(m.data, env.prev_state,
                           ThresholdAt(peak, env.threshold_on, floor),
                           ThresholdAt(peak, env.threshold_off, floor), <<>>))

SegmentTracked(env, m, peak) == SegmentTrackedAt(env, m, peak, ThresholdFloor)

\* Steps 3-4 on the result m of multipass_process
SegmentSmoothedAt(env, m, floor) ==
    SegmentTrackedAt(env, m, TrackPeak(env.peak_level, ChunkPeak(m.data)), floor)

SegmentSmoothed(env, m) == SegmentSmoothedAt(env, m, ThresholdFloor)

\* One segment with the levels counted in a unit in which 1e-10f is floor
EnvelopeSegmentAt(env, audio, floor) ==
    SegmentSmoothedAt(env, multipass_process(env.mpf, Rectify(audio)), floor)

EnvelopeSegment(env, audio) == EnvelopeSegmentAt(env, audio, ThresholdFloor)

RECURSIVE envelope_process(_, _)

\* The on/off decisions of a segment followed by those of the rest
SegmentsJoined(on_off, rest) == [env |-> rest.env, on_off |-> on_off \o rest.on_off]

\* envelope_process after the segment of chunk samples returned seg
SegmentThenRest(seg, audio, chunk) ==
    SegmentsJoined(seg.on_off,
                   envelope_process(seg.env, SubSeq(audio, chunk + 1, Len(audio))))

\* void envelope_process(env, audio, on_off, n): [env, on_off]
envelope_process(env, audio) ==
    IF Len(audio) = 0 THEN [env |-> env, on_off |-> <<>>]
    ELSE SegmentThenRest(EnvelopeSegment(env, SubSeq(audio, 1, Min(Len(audio), SEGMENT))),
                         audio, Min(Len(audio), SEGMENT))

\* void envelope_reset(envelope_t *env)
envelope_reset(env) ==
    [env EXCEPT !.peak_level = 0, !.prev_state = 0,
                !.mpf = multipass_reset(env.mpf)]

(***************************************************************************)
(* cw_decoder.c                                                            *)
(*                                                                         *)
(* The pattern buffer is the sequence of its pattern_len elements.         *)
(***************************************************************************)

MAX_PATTERN == 16

\* sizeof(pat_out)
PAT_OUT == 4

\* use_bandpass of cw_decoder_create (frequencies in whole Hz)
UseBandpass(c) ==
    IF c.bandwidth > 0
    THEN LET low  == Max(c.center_freq - c.bandwidth \div 2, 1)
             hi0  == c.center_freq + c.bandwidth \div 2
             high == IF 2 * hi0 >= c.sample_rate THEN c.sample_rate \div 2 - 1 ELSE hi0
         IN  IF low < high THEN 1 ELSE 0
    ELSE 0

\* cw_decoder_t *cw_decoder_create(const cw_config_t *cfg)
cw_decoder_create(c) ==
    [cfg |-> c,
     use_bandpass |-> UseBandpass(c),
     envelope |-> envelope_init(c.sample_rate, c.envelope_window_ms,
                                c.threshold_on, c.threshold_off,
                                c.envelope_mode, c.multipass_passes),
     timing |-> timing_init(c.timing_mode, c.sample_rate, c.initial_wpm,
                            c.min_wpm, c.max_wpm, c.min_element_ratio,
                            c.min_element_ms),
     pattern |-> <<>>,
     output |-> output_filter_init(c.min_word_length)]

\* if (elem == ELEM_WORD && written < out_len) out[written++] = ' '
WordSpace_first(out, elem, out_len) ==
    IF elem = ELEM_WORD /\ Len(out) < out_len THEN <<" ">> \o out ELSE out

WordSpace(out, elem, out_len) ==
    IF elem = ELEM_WORD /\ Len(out) < out_len THEN Append(out, " ") ELSE out

\* if (dec->pattern_len < MAX_PATTERN - 1)
PatternHasRoom_full(pattern) == Len(pattern) < MAX_PATTERN

PatternHasRoom(pattern) == Len(pattern) < MAX_PATTERN - 1

\* static int pattern_feed(dec, elem, out, out_len): [pattern, out]
pattern_feed(pattern, elem, out_len) ==
    IF elem = ELEM_DIT \/ elem = ELEM_DAH
    THEN [pattern |-> IF PatternHasRoom(pattern)
                      THEN Append(pattern, elem) ELSE pattern,
          out |-> <<>>]
    ELSE IF elem = ELEM_CHAR \/ elem = ELEM_WORD
    THEN [pattern |-> <<>>,
          out |-> WordSpace(IF Len(pattern) > 0
                            THEN morse_lookup_merged(pattern, out_len) ELSE <<>>,
                            elem, out_len)]
    ELSE [pattern |-> pattern, out |-> <<>>]

\* static int pattern_flush(dec, out, out_len): [pattern, out]
pattern_flush(pattern, out_len) ==
    IF Len(pattern) <= 0 THEN [pattern |-> pattern, out |-> <<>>]
    ELSE [pattern |-> <<>>, out |-> morse_lookup_merged(pattern, out_len)]

\* An element handed to the pattern decoder and its text to the output
\* filter, with room for `room` more bytes: [dec, out]
\* The decoder after the pattern decoder left pattern and the output
\* filter returned f
TextFiltered(dec, pattern, f) ==
    [dec |-> [dec EXCEPT !.pattern = pattern, !.output = f.f], out |-> f.out]

\* if (pat_n > 0) output_filter_feed(...), for the result p of pattern_feed
\* or pattern_flush
PatternText(dec, p, room) ==
    TextFiltered(dec, p.pattern,
                 IF Len(p.out) > 0
                 THEN output_filter_feed(dec.output, p.out, room)
                 ELSE [f |-> dec.output, out |-> <<>>])

FeedElement(dec, elem, room) ==
    IF elem = ELEM_NONE THEN [dec |-> dec, out |-> <<>>]
    ELSE PatternText(dec, pattern_feed(dec.pattern, elem, PAT_OUT), room)

\* The result t of timing_process_sample or timing_finalize stored, its
\* element fed on
TimedElement(dec, t, room) == FeedElement([dec EXCEPT !.timing = t.t], t.elem, room)

\* The loop condition of steps 3-4: for (i = 0; i < chunk && total_written <
\* out_len; i++)
MoreSamples(i, chunk, total_written, out_len) ==
    i <= chunk /\ total_written < out_len

\* Steps 3-4 of cw_decoder_process from on_off[i] on (i counts from 1):
\* timing -> pattern -> output filter, sample by sample.  fed is the number
\* of samples passed to timing_process_sample when the loop ends.
RECURSIVE ElementLoop(_, _, _, _, _)

\* The loop after sample i returned e: total_written += n
ElementFed(e, on_off, i, out, out_len) ==
    ElementLoop(e.dec, on_off, i + 1, out \o e.out, out_len)

ElementLoop(dec, on_off, i, out, out_len) ==
    IF ~MoreSamples(i, Len(on_off), Len(out), out_len)
    THEN [dec |-> dec, out |-> out, fed |-> i - 1]
    ELSE ElementFed(TimedElement(dec, timing_process_sample(dec.timing, on_off[i]),
                                 out_len - Len(out)),
                    on_off, i, out, out_len)

\* The while loop of cw_decoder_process over segments of at most 4096
\* samples, from audio[processed] on.
RECURSIVE SegmentLoop(_, _, _, _, _, _)

\* memcpy(work, audio + processed, chunk)
Work(audio, processed) ==
    SubSeq(audio, processed + 1, processed + Min(Len(audio) - processed, SEGMENT))

\* Steps 3-4 on the result env of envelope_process
SegmentDetected(dec, env, out, out_len) ==
    ElementLoop([dec EXCEPT !.envelope = env.env], env.on_off, 1, out, out_len)

\* The loop after the segment returned r: processed += chunk
SegmentFed(r, audio, processed, out_len, fed) ==
    SegmentLoop(r.dec, audio, processed + Min(Len(audio) - processed, SEGMENT),
                r.out, out_len, fed + r.fed)

\* Step 1: cw_decoder_create designs no band-pass for cfg (low >= high), so
\* the band-pass step is skipped.
SegmentLoop(dec, audio, processed, out, out_len, fed) ==
    IF ~(processed < Len(audio) /\ Len(out) < out_len)
    THEN [dec |-> dec, out |-> out, fed |-> fed]
    ELSE SegmentFed(SegmentDetected(dec, envelope_process(dec.envelope,
                                                          Work(audio, processed)),
                                    out, out_len),
                    audio, processed, out_len, fed)

\* int cw_decoder_process(dec, audio, n, out, out_len): [dec, out, fed]; the
\* return value is Len(out).
cw_decoder_process_dowhile(dec, audio, out_len) ==
    SegmentFed(SegmentDetected(dec, EnvelopeSegment(dec.envelope, Work(audio, 0)),
                               <<>>, out_len),
               audio, 0, out_len, 0)

cw_decoder_process(dec, audio, out_len) ==
    IF Len(audio) <= 0 \/ out_len <= 0 THEN [dec |-> dec, out |-> <<>>, fed |-> 0]
    ELSE SegmentLoop(dec, audio, 0, <<>>, out_len, 0)

\* int cw_decoder_finalize(dec, out, out_len): [dec, out]
\* The end of cw_decoder_finalize: out holds the bytes written before
\* output_filter_flush returned fl
FilterFlushed(dec, out, fl) ==
    [dec |-> [dec EXCEPT !.output = fl.f], out |-> out \o fl.out]

\* cw_decoder_finalize after the pattern flush returned r, with total the
\* bytes written before it: the output filter is flushed
PatternFlushed(r, total, out_len) ==
    FilterFlushed(r.dec, total \o r.out,
                  output_filter_flush(r.dec.output, out_len - Len(total) - Len(r.out)))

\* cw_decoder_finalize after the last element returned e: the remaining
\* pattern is flushed through the output filter
ElementFinalized(e, out_len) ==
    PatternFlushed(PatternText(e.dec, pattern_flush(e.dec.pattern, PAT_OUT),
                               out_len - Len(e.out)),
                   e.out, out_len)

cw_decoder_finalize(dec, out_len) ==
    ElementFinalized(TimedElement(dec, timing_finalize(dec.timing), out_len), out_len)

\* void cw_decoder_reset(cw_decoder_t *dec)
cw_decoder_reset(dec) ==
    [dec EXCEPT !.envelope = envelope_reset(dec.envelope),
                !.timing = timing_reset(dec.timing, dec.cfg.initial_wpm),
                !.pattern = <<>>,
                !.output = output_filter_reset(dec.output)]

(***************************************************************************)
(* SpecFilter: the output filter driven with the texts pattern_feed hands   *)
(* it (one or two characters, a space after them on a word gap, or a lone  *)
(* space), with flushes and resets in between.                             *)
(***************************************************************************)

\* Longest word buffered in SpecFilter.
MaxFilterWord == 3

\* Largest out_len passed in SpecFilter.
MaxFilterOut == 3

\* cfg.min_word_length values tried (the default is 2).
MinWordLengths == {2, 3}

\* A noise-prone letter, the unknown marker and a letter that is not
\* noise-prone.
FilterChars == {"E", "?", "S"}

FilterTexts ==
    LET cs == {<<a>> : a \in FilterChars}
                 \cup {<<a, b>> : a \in FilterChars, b \in FilterChars}
    IN  cs \cup {Append(t, " ") : t \in cs} \cup {<<" ">>}

FilterIdle == output_filter_init(0)

FopIdle == [op |-> "none"]

\* The variables of the decoder-level specifications, unused here.
decoderVars == <<decoder, last, calls, sig, acc>>

DecoderIdle ==
    /\ decoder = cw_decoder_create(cfg)
    /\ last = [op |-> "none"]
    /\ calls = 0
    /\ sig = <<>>
    /\ acc = <<>>

InitFilter ==
    /\ \E m \in MinWordLengths : flt = output_filter_init(m)
    /\ fop = [op |-> "init"]
    /\ lk = [done |-> TRUE]
    /\ DecoderIdle

FilterFeed ==
    \E text \in FilterTexts, out_len \in 0..MaxFilterOut :
        /\ Len(flt.word_buf) + Len(text) <= MaxFilterWord + 1
        /\ LET r == output_filter_feed(flt, text, out_len)
           IN  /\ flt' = r.f
               /\ fop' = [op |-> "feed", pre |-> flt, text |-> text,
                          out_len |-> out_len, out |-> r.out]
        /\ UNCHANGED <<lk, decoderVars>>

FilterFlush ==
    \E out_len \in 0..MaxFilterOut :
        /\ LET r == output_filter_flush(flt, out_len)
           IN  /\ flt' = r.f
               /\ fop' = [op |-> "flush", pre |-> flt, text |-> <<>>,
                          out_len |-> out_len, out |-> r.out]
        /\ UNCHANGED <<lk, decoderVars>>

FilterReset ==
    /\ flt' = output_filter_reset(flt)
    /\ fop' = [op |-> "reset", pre |-> flt, text |-> <<>>, out_len |-> 0, out |-> <<>>]
    /\ UNCHANGED <<lk, decoderVars>>

NextFilter == FilterFeed \/ FilterFlush \/ FilterReset

SpecFilter == InitFilter /\ [][NextFilter]_vars

FilterCalled == fop.op \in {"feed", "flush", "reset"}

\* The characters of the last call's text that precede its space.
TextChars(text) == SelectSeq(text, LAMBDA c : c # " ")

\* The last call completed a word: a flush, or a feed whose text ends with a
\* space that the feed loop reached.
WordCompleted ==
    /\ fop.op \in {"feed", "flush"}
    /\ fop.op = "feed" =>
         (fop.text # <<>> /\ fop.text[Len(fop.text)] = " " /\ fop.out_len >= 1)

\* The word the last call completed.
CompletedWord == fop.pre.word_buf \o TextChars(fop.text)

AllNoise(w) == \A i \in 1..Len(w) : w[i] \in {"E", "T", "I", "A", "N", "M", "?"}

Truncate(s, n) == SubSeq(s, 1, Min(Len(s), n))

C10_WarmedUpLatched ==
    [][(flt.warmed_up = 1 /\ fop'.op # "reset") => flt'.warmed_up = 1]_vars

\* A flush of a pending word after the filter had warmed up.
C10_Witness ==
    /\ FilterCalled /\ fop.op = "flush" /\ fop.pre.warmed_up = 1
    /\ fop.pre.word_buf # <<>> /\ flt.warmed_up = 1

(***************************************************************************)
(* SpecLookup: morse_lookup_merged as a pure function of a pattern and an  *)
(* output size.                                                            *)
(***************************************************************************)

\* Longest pattern looked up (the longest table pattern has 7 elements).
MaxPatLen == 7

\* Largest out_len tried (the decoder always passes sizeof(pat_out) = 4).
MaxLookupOut == 4

Elems == {".", "-"}

RECURSIVE SeqsUpTo(_, _)
SeqsUpTo(S, n) ==
    IF n = 0 THEN {<<>>}
    ELSE LET shorter == SeqsUpTo(S, n - 1)
         IN  shorter \cup {Append(s, e) : s \in {t \in shorter : Len(t) = n - 1}, e \in S}

Patterns == SeqsUpTo(Elems, MaxPatLen) \ {<<>>}

InitLookup ==
    /\ lk \in [pattern : Patterns, out_len : 0..MaxLookupOut,
               done : {FALSE}, result : {<<>>}]
    /\ flt = FilterIdle
    /\ fop = FopIdle
    /\ DecoderIdle

Lookup ==
    /\ ~lk.done
    /\ lk' = [lk EXCEPT !.done = TRUE,
                        !.result = morse_lookup_merged(lk.pattern, lk.out_len)]
    /\ UNCHANGED <<flt, fop, decoderVars>>

NextLookup == Lookup

SpecLookup == InitLookup /\ [][NextLookup]_vars

\* ---- what the table says, independently of the lookup code ----

InTable(p) == \E i \in 1..TABLE_SIZE : MORSE_TABLE[i].pattern = p

TableChar(p) == MORSE_TABLE[CHOOSE i \in 1..TABLE_SIZE : MORSE_TABLE[i].pattern = p].ch

TableWeight(p) == MORSE_TABLE[CHOOSE i \in 1..TABLE_SIZE : MORSE_TABLE[i].pattern = p].weight

Left(p, pos) == SubSeq(p, 1, pos)

Right(p, pos) == SubSeq(p, pos + 1, Len(p))

ValidSplits(p) == {pos \in 1..(Len(p) - 1) : InTable(Left(p, pos)) /\ InTable(Right(p, pos))}

SplitWeight(p, pos) == TableWeight(Left(p, pos)) + TableWeight(Right(p, pos))

\* The earliest split of maximal weight among the valid ones.
BestSplitPos(p) ==
    SetMin({pos \in ValidSplits(p) :
              \A q \in ValidSplits(p) : SplitWeight(p, q) <= SplitWeight(p, pos)})

\* C6: for every pattern with a table entry, morse_lookup_merged with
\* out_len >= 1 writes exactly one character, the table's character for the
\* pattern.  (Violated: the table maps ..--.. to '?', which morse_lookup_merged
\* takes for "not found".)
C6_DirectHitOneChar ==
    (lk.done /\ InTable(lk.pattern) /\ lk.out_len >= 1)
        => lk.result = <<TableChar(lk.pattern)>>

\* C7: for a pattern of length >= 2 with no table entry (and room for two
\* characters), morse_lookup_merged emits the two characters of the earliest
\* split of maximal weight whose halves are both table patterns, and a single
\* '?' if there is no such split.  (Violated: a half equal to ..--.. is a table
\* pattern, but the code rejects it.)
C7_BestSplitEmitted ==
    (lk.done /\ Len(lk.pattern) >= 2 /\ ~InTable(lk.pattern) /\ lk.out_len >= 2)
        => lk.result =
             IF ValidSplits(lk.pattern) = {} THEN <<"?">>
             ELSE <<TableChar(Left(lk.pattern, BestSplitPos(lk.pattern))),
                    TableChar(Right(lk.pattern, BestSplitPos(lk.pattern)))>>

PatAA == <<".", "-", ".", "-">>

\* C8 as stated: morse_lookup_merged applied to .-.- emits AA.
C8_EmitsAA ==
    (lk.done /\ lk.pattern = PatAA /\ lk.out_len >= 2) => lk.result = <<"A", "A">>

\* C8 amended: morse_lookup_merged applied to .-.- emits EK (the split at
\* position 1, E + K, weighs 321 + 17 = 338 and beats A + A = 254) when
\* out_len >= 2, a single '?' when out_len = 1 and nothing when out_len < 1.
C8_EmitsEK ==
    (lk.done /\ lk.pattern = PatAA)
        => lk.result = IF lk.out_len >= 2 THEN <<"E", "K">>
                       ELSE IF lk.out_len = 1 THEN <<"?">> ELSE <<>>

C8_Witness == lk.done /\ lk.pattern = PatAA /\ lk.out_len = 4 /\ Len(lk.result) = 2

(***************************************************************************)
(* Spec: one decoder created from cfg and driven through its API with      *)
(* chunks of audio, finalize and reset.                                    *)
(***************************************************************************)

\* Calls made on the decoder in one behaviour.
MaxCalls == 5

\* Largest out_len passed to cw_decoder_process / cw_decoder_finalize.
MaxOut == 8

\* The chunks of audio passed to cw_decoder_process: <<level, n>> is n
\* samples of that level (0 is silence, 1 is full scale).  A 1-sample and a
\* 15-sample tone, a 3-sample and a 24-sample silence.
Chunks == {<<1, 1>>, <<0, 3>>, <<1, 15>>, <<0, 24>>}

Audio(c) == [i \in 1..c[2] |-> c[1] * AmpOne]

OutLens == {0, 1, MaxOut}

FreshDecoder == cw_decoder_create(cfg)

UnitIdle ==
    /\ lk = [done |-> TRUE]
    /\ flt = FilterIdle
    /\ fop = FopIdle

unitVars == <<lk, flt, fop>>

Init ==
    /\ decoder = FreshDecoder
    /\ last = [op |-> "create"]
    /\ calls = 0
    /\ sig = <<>>
    /\ acc = <<>>
    /\ UnitIdle

Process ==
    \E c \in Chunks, out_len \in OutLens :
        /\ calls < MaxCalls
        /\ \E r \in {cw_decoder_process(decoder, Audio(c), out_len)} :
               /\ decoder' = r.dec
               /\ last' = [op |-> "process", n |-> c[2], out_len |-> out_len,
                           out |-> r.out, fed |-> r.fed, dirty |-> FALSE]
        /\ calls' = calls + 1
        /\ UNCHANGED <<sig, acc, unitVars>>

Finalize ==
    \E out_len \in OutLens :
        /\ calls < MaxCalls
        /\ \E r \in {cw_decoder_finalize(decoder, out_len)} :
               /\ decoder' = r.dec
               /\ last' = [op |-> "finalize", n |-> 0, out_len |-> out_len,
                           out |-> r.out, fed |-> 0, dirty |-> FALSE]
        /\ calls' = calls + 1
        /\ UNCHANGED <<sig, acc, unitVars>>

Reset ==
    /\ calls < MaxCalls
    /\ decoder' = cw_decoder_reset(decoder)
    /\ last' = [op |-> "reset", n |-> 0, out_len |-> 0, out |-> <<>>, fed |-> 0,
                dirty |-> (decoder.envelope # FreshDecoder.envelope
                           /\ decoder.timing # FreshDecoder.timing
                           /\ decoder.output # FreshDecoder.output)]
    /\ calls' = calls + 1
    /\ UNCHANGED <<sig, acc, unitVars>>

Next == Process \/ Finalize \/ Reset

Spec == Init /\ [][Next]_vars

\* C1: every cw_decoder_process call returns w with 0 <= w <= out_len and
\* writes only out[0..w-1]: the bytes it writes are never more than out_len.
C1_WrittenWithinOutLen ==
    last.op = "process" => (0 <= Len(last.out) /\ Len(last.out) <= last.out_len)

\* A process call filled a non-empty output buffer to its last byte.
C1_WitnessFull ==
    last.op = "process" /\ last.out_len >= 1 /\ Len(last.out) = last.out_len

\* C2: cw_decoder_process consumes its whole input: timing_process_sample
\* ran once for each of the n samples, whatever out_len is.  (Violated: the
\* call returns at once when out_len <= 0 and stops feeding samples when the
\* output buffer is full.)
C2_ConsumesWholeInput ==
    last.op = "process" => last.fed = last.n

FinalizeFlushedText ==
    last.op = "finalize"
        => /\ decoder.pattern = <<>>
           /\ decoder.output.word_buf = <<>>
           /\ cw_decoder_finalize(decoder, MaxOut).out = <<>>

\* C13: cw_decoder_finalize flushes everything pending: afterwards the timing
\* FSM has no pending mark (on_dur = 0), the pattern buffer is empty and the
\* word buffer is empty, and an immediately repeated finalize writes 0 bytes.
\* (Violated when the stream ends inside its first mark: timing_finalize
\* classifies a pending mark only if seen_signal is set.)
C13_FinalizeFlushesAll ==
    FinalizeFlushedText /\ (last.op = "finalize" => decoder.timing.on_dur = 0)

\* C13 without the first mark: the pending mark is cleared whenever a mark
\* has ended before.
FinalizeClearsLaterMark ==
    (last.op = "finalize" /\ decoder.timing.seen_signal = 1)
        => decoder.timing.on_dur = 0

(***************************************************************************)
(* SpecChunk: the same audio given to one decoder chunk by chunk and to a  *)
(* second decoder in one cw_decoder_process call, both then finalized.     *)
(***************************************************************************)

\* Chunks an audio sequence is split into.
MaxChunks == 4

\* Longest audio sequence, in samples.
MaxAudio == 48

\* out_len of every call in SpecChunk and SpecKeyed, larger than any output.
BigOut == 64

InitChunk ==
    /\ decoder = FreshDecoder
    /\ last = [op |-> "create"]
    /\ calls = 0
    /\ sig = <<>>
    /\ acc = <<>>
    /\ UnitIdle

\* Another chunk goes to the chunked decoder and is appended to the audio.
ChunkProcess ==
    \E c \in Chunks :
        /\ calls < MaxChunks
        /\ Len(sig) + c[2] <= MaxAudio
        /\ last.op # "compare"
        /\ \E r \in {cw_decoder_process(decoder, Audio(c), BigOut - Len(acc))} :
               /\ decoder' = r.dec
               /\ acc' = acc \o r.out
        /\ sig' = sig \o Audio(c)
        /\ last' = [op |-> "chunk"]
        /\ calls' = calls + 1
        /\ UNCHANGED unitVars

\* The text out of a cw_decoder_process call followed by that of the
\* cw_decoder_finalize call that returned f
TextJoined(out, f) == [dec |-> f.dec, out |-> out \o f.out]

\* cw_decoder_finalize after the cw_decoder_process call that returned w
ThenFinalized(w) ==
    TextJoined(w.out, cw_decoder_finalize(w.dec, BigOut - Len(w.out)))

\* A fresh decoder processes the whole audio in one call and is finalized.
WholeDecode(audio) ==
    ThenFinalized(cw_decoder_process(FreshDecoder, audio, BigOut))

\* The chunked decoder is finalized; a fresh decoder processes the whole
\* audio in one call and is finalized.
ChunkCompare ==
    /\ calls >= 1
    /\ last.op = "chunk"
    /\ \E cf \in {cw_decoder_finalize(decoder, BigOut - Len(acc))},
          wf \in {WholeDecode(sig)} :
           /\ decoder' = cf.dec
           /\ last' = [op |-> "compare", chunks |-> calls,
                       chunked |-> acc \o cf.out, whole |-> wf.out,
                       chunked_wpm |-> cf.dec.timing.kalman.x[K_DIT],
                       whole_wpm |-> wf.dec.timing.kalman.x[K_DIT]]
    /\ UNCHANGED <<calls, sig, acc, unitVars>>

NextChunk == ChunkProcess \/ ChunkCompare

SpecChunk == InitChunk /\ [][NextChunk]_vars

\* C3: the process outputs of any chunking of an audio sequence, followed by
\* the finalize output, are those of the whole sequence given in one call.
\* (Violated: envelope_process tracks the peak and sets its thresholds once
\* per call, and multipass_process carries its window across calls only in
\* part.)
C3_ChunkIndependent ==
    (last.op = "compare" /\ Len(last.chunked) < BigOut /\ Len(last.whole) < BigOut)
        => last.chunked = last.whole

(***************************************************************************)
(* SpecKeyed: a message keyed with exact ITU timing at cfg.initial_wpm, its *)
(* on/off trace fed sample by sample to the loop of cw_decoder_process     *)
(* that follows the envelope detector, then cw_decoder_finalize.           *)
(***************************************************************************)

\* Dits of silence after the last element of a message.
TrailDits == 7

\* Longest word made of KeyChars.
MaxWordLen == 2

KeyChars == {"E", "T", "K", "?"}

PARIS == <<"P", "A", "R", "I", "S">>

\* Messages keyed: PARIS, PARIS twice, and every word of KeyChars of at
\* least cfg.min_word_length characters.
Messages ==
    {PARIS, PARIS \o <<" ">> \o PARIS}
      \cup {m \in SeqsUpTo(KeyChars, MaxWordLen) : Len(m) >= cfg.min_word_length}

Dit == DitSamples(cfg.sample_rate, cfg.initial_wpm)

Mark(n) == [i \in 1..n |-> 1]

Gap(n) == [i \in 1..n |-> 0]

\* The pattern keyed for a character: its table pattern.
PatternOf(ch) == MORSE_TABLE[CHOOSE i \in 1..TABLE_SIZE : MORSE_TABLE[i].ch = ch].pattern

\* The elements of pattern p from p[i] on, one dit of silence between two.
RECURSIVE KeyElements(_, _)
KeyElements(p, i) ==
    IF i > Len(p) THEN <<>>
    ELSE Mark(IF p[i] = "." THEN Dit ELSE 3 * Dit)
           \o (IF i < Len(p) THEN Gap(Dit) ELSE <<>>)
           \o KeyElements(p, i + 1)

\* The on/off trace of message m from m[i] on: 3 dits of silence between
\* two characters, 7 between two words, TrailDits after the last.
RECURSIVE KeyMessage(_, _)
KeyMessage(m, i) ==
    IF i > Len(m) THEN <<>>
    ELSE IF m[i] = " " THEN KeyMessage(m, i + 1)
    ELSE KeyElements(PatternOf(m[i]), 1)
           \o Gap(IF i = Len(m) THEN TrailDits * Dit
                  ELSE IF m[i + 1] = " " THEN 7 * Dit ELSE 3 * Dit)
           \o KeyMessage(m, i + 1)

InitKeyed ==
    /\ decoder = FreshDecoder
    /\ \E m \in Messages :
         /\ last = [op |-> "key", msg |-> m]
         /\ sig = KeyMessage(m, 1)
    /\ calls = 0
    /\ acc = <<>>
    /\ UnitIdle

\* The next sample of the trace goes through timing, pattern and output
\* filter.
KeySample ==
    /\ last.op = "key"
    /\ sig # <<>>
    /\ \E r \in {ElementLoop(decoder, <<Head(sig)>>, 1, acc, BigOut)} :
           /\ decoder' = r.dec
           /\ acc' = r.out
    /\ sig' = Tail(sig)
    /\ UNCHANGED <<last, calls, unitVars>>

KeyFinalize ==
    /\ last.op = "key"
    /\ sig = <<>>
    /\ \E r \in {cw_decoder_finalize(decoder, BigOut - Len(acc))} :
           /\ decoder' = r.dec
           /\ last' = [op |-> "keyed", msg |-> last.msg, out |-> acc \o r.out]
    /\ UNCHANGED <<calls, sig, acc, unitVars>>

NextKeyed == KeySample \/ KeyFinalize

SpecKeyed == InitKeyed /\ [][NextKeyed]_vars

\* C5: a message keyed with exact ITU timing at the initial speed and
\* followed by silence comes out of the timing FSM, pattern buffer and output
\* filter, after finalize, as exactly its text.  (Violated by a message with
\* a question mark: morse_lookup_merged splits ..--.. into IZ.)
C5_KeyedMessageDecoded ==
    last.op = "keyed" => last.out = last.msg

\* C5 holds for the messages without a question mark.
KeyedWithoutQuestionMark ==
    (last.op = "keyed" /\ \A i \in 1..Len(last.msg) : last.msg[i] # "?")
        => last.out = last.msg

(***************************************************************************)
(* SpecLongWord: the output filter fed one character at a time, as          *)
(* cw_decoder_process feeds it when no word gap is keyed, so that a word    *)
(* can outgrow the 63 characters word_buf holds; then the space that ends   *)
(* the word, with room for all of it.                                      *)
(***************************************************************************)

\* Longest word fed, one more than word_buf can hold plus one.
MaxLongWord == 65

\* A letter that is not noise-prone and one that is.
LongWordChars == {"S", "E"}

InitLongWord ==
    /\ flt = output_filter_init(cfg.min_word_length)
    /\ fop = [op |-> "init"]
    /\ lk = [done |-> TRUE]
    /\ DecoderIdle

\* One more character of the word (every word repeats one letter).
LongWordChar ==
    \E ch \in LongWordChars :
        /\ Len(acc) < MaxLongWord
        /\ IF acc = <<>> THEN TRUE ELSE acc[1] = ch
        /\ \E r \in {output_filter_feed(flt, <<ch>>, MaxLongWord + 1)} :
               /\ flt' = r.f
               /\ fop' = [op |-> "char", word |-> <<>>, warmed |-> flt.warmed_up,
                          out |-> r.out]
        /\ acc' = Append(acc, ch)
        /\ UNCHANGED <<lk, decoder, last, calls, sig>>

\* The space that ends the word, with room for the word and the space.
LongWordSpace ==
    /\ \E r \in {output_filter_feed(flt, <<" ">>, MaxLongWord + 1)} :
           /\ flt' = r.f
           /\ fop' = [op |-> "space", word |-> acc, warmed |-> flt.warmed_up,
                      out |-> r.out]
    /\ acc' = <<>>
    /\ UNCHANGED <<lk, decoder, last, calls, sig>>

NextLongWord == LongWordChar \/ LongWordSpace

SpecLongWord == InitLongWord /\ [][NextLongWord]_vars

\* A space ended a non-empty word while warmed_up was set.
WarmWordEnded == fop.op = "space" /\ fop.warmed = 1 /\ fop.word # <<>>

\* C11 (as stated): once warmed_up is set, a word ended by a space is written
\* with all its characters, in order, followed by exactly one space, given
\* enough room.  (Violated by a word of 64 characters.)
C11_WordVerbatim ==
    WarmWordEnded => fop.out = Append(fop.word, " ")

\* C11 (amended): once warmed_up is set, the first 63 characters of a word
\* ended by a space (all of them when the word has at most 63) are written in
\* order, followed by exactly one space, given enough room.
C11_WordVerbatimUpTo63 ==
    WarmWordEnded
        => fop.out = Append(Truncate(fop.word, OUTPUT_FILTER_MAX_WORD - 1), " ")

\* A word of 64 characters was ended while warmed_up was set: 63 characters
\* and the space were written.
C11_WitnessLong ==
    /\ WarmWordEnded
    /\ Len(fop.word) = OUTPUT_FILTER_MAX_WORD
    /\ Len(fop.out) = OUTPUT_FILTER_MAX_WORD

\* The word buffer holds at most 63 characters.
WordInBuffer == Len(flt.word_buf) \in 0..(OUTPUT_FILTER_MAX_WORD - 1)

\* A character of a word is stored at index word_len, inside word_buf, or,
\* with 63 characters buffered, dropped: the buffer keeps the first 63.
CharStoredOrDropped ==
    LongWordChar =>
        /\ Len(flt.word_buf) < OUTPUT_FILTER_MAX_WORD - 1
             => Len(flt'.word_buf) = Len(flt.word_buf) + 1
        /\ Len(flt.word_buf) = OUTPUT_FILTER_MAX_WORD - 1
             => flt'.word_buf = flt.word_buf
        /\ flt'.word_buf = Truncate(acc', OUTPUT_FILTER_MAX_WORD - 1)

\* C22: in every reachable state the output filter's word length is in
\* [0, 63]; characters arriving while 63 are buffered are dropped without
\* writing outside word_buf.
C22_WordBufBounded == []WordInBuffer /\ [][CharStoredOrDropped]_vars

\* The 64th and 65th characters of a word have arrived and 63 are buffered.
C22_WitnessDropped ==
    /\ fop.op = "char"
    /\ Len(acc) = OUTPUT_FILTER_MAX_WORD + 1
    /\ Len(flt.word_buf) = OUTPUT_FILTER_MAX_WORD - 1

(***************************************************************************)
(* SpecPattern: the pattern buffer of a decoder driven with the elements    *)
(* timing_process_sample can return, and flushed.  The output filter is    *)
(* left out: pattern_feed and pattern_flush neither read nor write it.     *)
(***************************************************************************)

\* Elements of a pattern that may be a dah; the later ones are dits.
MaxMixed == 6

\* The index of dec->pattern that a pattern_feed(elem) or pattern_flush call
\* (elem = ELEM_NONE) writes, -1 when it writes none: the element stored at
\* pattern_len, or the terminator '\0' stored at pattern_len.
PatternWriteIndex(pattern, elem) ==
    IF elem = ELEM_DIT \/ elem = ELEM_DAH
    THEN (IF PatternHasRoom(pattern) THEN Len(pattern) ELSE -1)
    ELSE (IF Len(pattern) > 0 THEN Len(pattern) ELSE -1)

InitPattern ==
    /\ decoder = FreshDecoder
    /\ last = [op |-> "create"]
    /\ calls = 0
    /\ sig = <<>>
    /\ acc = <<>>
    /\ UnitIdle

PatternFeed ==
    \E elem \in {ELEM_DIT, ELEM_DAH, ELEM_CHAR, ELEM_WORD} :
        /\ elem = ELEM_DAH => Len(decoder.pattern) < MaxMixed
        /\ \E r \in {pattern_feed(decoder.pattern, elem, PAT_OUT)} :
               /\ decoder' = [decoder EXCEPT !.pattern = r.pattern]
               /\ last' = [op |-> "feed", elem |-> elem, out |-> r.out,
                           idx |-> PatternWriteIndex(decoder.pattern, elem)]
        /\ UNCHANGED <<calls, sig, acc, unitVars>>

PatternFlush ==
    /\ \E r \in {pattern_flush(decoder.pattern, PAT_OUT)} :
           /\ decoder' = [decoder EXCEPT !.pattern = r.pattern]
           /\ last' = [op |-> "flush", elem |-> ELEM_NONE, out |-> r.out,
                       idx |-> PatternWriteIndex(decoder.pattern, ELEM_NONE)]
    /\ UNCHANGED <<calls, sig, acc, unitVars>>

NextPattern == PatternFeed \/ PatternFlush

SpecPattern == InitPattern /\ [][NextPattern]_vars

PatternCalled == last.op \in {"feed", "flush"}

\* The pattern holds 0..15 elements, each '.' or '-', and the last call wrote
\* inside pattern[0..MAX_PATTERN-1] if it wrote at all.
PatternInBuffer ==
    /\ Len(decoder.pattern) \in 0..15
    /\ \A i \in 1..Len(decoder.pattern) : decoder.pattern[i] \in {".", "-"}
    /\ PatternCalled => last.idx \in -1..(MAX_PATTERN - 1)

\* A dit or dah arriving when 15 elements are stored leaves the pattern as it
\* is.
SixteenthDropped ==
    (Len(decoder.pattern) = 15 /\ last'.op = "feed"
       /\ last'.elem \in {ELEM_DIT, ELEM_DAH})
        => (decoder'.pattern = decoder.pattern /\ last'.idx = -1)

\* C12: in every reachable decoder state the pattern buffer length is in
\* [0, 15] and every stored element is '.' or '-'; a DIT/DAH arriving when 15
\* elements are stored is dropped without writing outside the buffer.
C12_PatternBounded == []PatternInBuffer /\ [][SixteenthDropped]_vars

\* A dit arrived when 15 elements were stored and was dropped.
C12_WitnessDropped ==
    /\ last.op = "feed" /\ last.elem = ELEM_DIT /\ last.idx = -1
    /\ Len(decoder.pattern) = 15

\* The space a WORD event adds.
SpaceOn(elem) == IF elem = ELEM_WORD THEN <<" ">> ELSE <<>>

\* A pattern_feed call with ELEM_CHAR or ELEM_WORD empties the pattern
\* buffer and returns the 1 or 2 characters of the pattern it held, none if
\* it held none, followed by one space for ELEM_WORD.
GapEmitsPattern ==
    (last'.op = "feed" /\ last'.elem \in {ELEM_CHAR, ELEM_WORD})
        => /\ decoder'.pattern = <<>>
           /\ decoder.pattern # <<>>
                => /\ Len(morse_lookup_merged(decoder.pattern, PAT_OUT)) \in {1, 2}
                   /\ \A i \in 1..Len(morse_lookup_merged(decoder.pattern, PAT_OUT)) :
                        morse_lookup_merged(decoder.pattern, PAT_OUT)[i] # " "
                   /\ last'.out = morse_lookup_merged(decoder.pattern, PAT_OUT)
                                    \o SpaceOn(last'.elem)
           /\ decoder.pattern = <<>> => last'.out = SpaceOn(last'.elem)

\* C29: on a CHAR or WORD event the accumulated pattern (if non-empty) is
\* looked up, its 1 or 2 characters are emitted and the pattern buffer is
\* emptied; a WORD event additionally emits exactly one space after them,
\* and a gap event with an empty pattern emits no character.
C29_GapEmitsPattern == [][GapEmitsPattern]_vars

\* A WORD event emitted the two characters of a split pattern and a space.
C29_WitnessSplitThenSpace ==
    /\ last.op = "feed" /\ last.elem = ELEM_WORD
    /\ Len(last.out) = 3
    /\ last.out[1] # "?" /\ last.out[3] = " "
    /\ decoder.pattern = <<>>

(***************************************************************************)
(* SpecKalman: kalman_update called on the filter of a fresh decoder with   *)
(* every state index, in and out of range, and durations inside and        *)
(* outside the innovation gate, for three pairs of speed bounds.           *)
(***************************************************************************)

\* kalman_update calls in a behaviour.
MaxUpdates == 3

\* (min_wpm, max_wpm): the defaults, a narrow range and a single speed.
SpeedBounds == {<<5, 60>>, <<15, 30>>, <<20, 20>>}

\* duration_samples: none, and the ITU durations of 20 WPM (3, 9 and 21
\* samples) with neighbours inside the gate.
Durations == {0, 2, 3, 4, 9, 21}

StateIndices == -1..KALMAN_STATES

InitKalman ==
    /\ \E b \in SpeedBounds :
         decoder = cw_decoder_create([cfg EXCEPT !.min_wpm = b[1], !.max_wpm = b[2]])
    /\ last = [op |-> "create"]
    /\ calls = 0
    /\ sig = <<>>
    /\ acc = <<>>
    /\ UnitIdle

KalmanUpdate ==
    \E idx \in StateIndices, dur \in Durations :
        /\ calls < MaxUpdates
        /\ \E r \in {kalman_update(decoder.timing.kalman, idx, dur)} :
               /\ decoder' = [decoder EXCEPT !.timing.kalman = r.k]
               /\ last' = [op |-> "update", idx |-> idx, dur |-> dur,
                           accepted |-> r.accepted, pre |-> decoder.timing.kalman]
        /\ calls' = calls + 1
        /\ UNCHANGED <<sig, acc, unitVars>>

NextKalman == KalmanUpdate

SpecKalman == InitKalman /\ [][NextKalman]_vars

\* v lies in [lo, hi]
Within(v, lo, hi) == lo <= v /\ v <= hi

\* The clamps of apply_bounds on the log-state of k.
ClampsHold(k) ==
    /\ Within(k.x[K_DIT], LN(DitSamples(k.sample_rate, k.max_wpm)),
                          LN(DitSamples(k.sample_rate, k.min_wpm)))
    /\ Within(k.x[K_DAH],        k.x[K_DIT] + LN(2), k.x[K_DIT] + LN(4))
    /\ Within(k.x[K_ELEM_SPACE], k.x[K_DIT] - M_LN2, k.x[K_DIT] + M_LN2)
    /\ Within(k.x[K_CHAR_SPACE], k.x[K_DIT] + LN(2), k.x[K_DIT] + LN(4))
    /\ Within(k.x[K_WORD_SPACE], k.x[K_DIT] + LN(5), k.x[K_DIT] + LN(9))

\* C14: after every accepted kalman_update (min_wpm <= max_wpm) the log-state
\* satisfies all clamps: x[DIT] within [ln(1.2 fs / max_wpm), ln(1.2 fs /
\* min_wpm)], and relative to x[DIT] DAH in [ln 2, ln 4], ELEM_SPACE in
\* [-ln 2, ln 2], CHAR_SPACE in [ln 2, ln 4], WORD_SPACE in [ln 5, ln 9].
C14_ClampsAfterUpdate ==
    (last.op = "update" /\ last.accepted = 1) => ClampsHold(decoder.timing.kalman)

\* An accepted dit of 4 samples at the single speed 20 WPM: the update raised
\* x[DIT] above ln 3 and the clamp brought it back.
C14_WitnessClamped ==
    /\ last.op = "update" /\ last.accepted = 1
    /\ last.idx = K_DIT /\ last.dur = 4
    /\ decoder.timing.kalman.min_wpm = decoder.timing.kalman.max_wpm
    /\ decoder.timing.kalman.x[K_DIT] = LN(3)
    /\ decoder.timing.kalman.P # last.pre.P

\* The measurement of the last call is one kalman_update rejects: a state
\* index out of range, a duration <= 0, or |ln D - x[idx]| above the gate.
Rejectable ==
    \/ last.idx < 0 \/ last.idx >= KALMAN_STATES
    \/ last.dur <= 0
    \/ Abs(LN(last.dur) - last.pre.x[last.idx]) > M_LN2

\* C15: a measurement rejected by kalman_update (|ln D - x_i| greater than
\* the gate ln 2, D <= 0, or an out-of-range state index) returns 0 and
\* leaves the state vector x and the covariance P unchanged.
C15_RejectedUnchanged ==
    (last.op = "update" /\ Rejectable)
        => /\ last.accepted = 0
           /\ decoder.timing.kalman.x = last.pre.x
           /\ decoder.timing.kalman.P = last.pre.P

\* A dit measurement of 9 samples against a dit estimate of 3 samples was
\* rejected by the gate, after an accepted update.
C15_WitnessGated ==
    /\ last.op = "update" /\ last.accepted = 0
    /\ last.idx = K_DIT /\ last.dur = 9
    /\ last.pre.P[K_DIT][K_DIT] # KalmanP0
    /\ decoder.timing.kalman = last.pre

\* x[idx] of k moved by gain times innovation for a measurement of dur
\* samples, the other states as they were, then apply_bounds.
OneStateMoved(k, idx, dur) ==
    apply_bounds([k EXCEPT !.x[idx] =
                     @ + RDiv(RDiv(k.P[idx][idx] * LnOne, k.P[idx][idx] + k.R)
                                * (LN(dur) - k.x[idx]), LnOne)])

\* C33: every off-diagonal entry of the Kalman covariance P is zero in every
\* reachable state (P starts diagonal and kalman_update preserves this), so
\* P is symmetric with non-negative diagonal and an accepted update on
\* state i changes only x[i] before clamping; the other four states move
\* only through apply_bounds.
C33_CovarianceDiagonal ==
    /\ \A i \in States, j \in States :
         /\ i # j => decoder.timing.kalman.P[i][j] = 0
         /\ decoder.timing.kalman.P[i][j] = decoder.timing.kalman.P[j][i]
         /\ decoder.timing.kalman.P[i][i] >= 0
    /\ (last.op = "update" /\ last.accepted = 1)
         => decoder.timing.kalman.x
              = OneStateMoved(last.pre, last.idx, last.dur).x

\* An accepted element space of 4 samples, after an earlier accepted update
\* of the same state, moved x[ELEM_SPACE] and its variance and no other
\* state.
C33_WitnessOneStateMoved ==
    /\ last.op = "update" /\ last.accepted = 1
    /\ last.idx = K_ELEM_SPACE /\ last.dur = 4
    /\ last.pre.P[K_ELEM_SPACE][K_ELEM_SPACE] # KalmanP0
    /\ decoder.timing.kalman.x[K_ELEM_SPACE] # last.pre.x[K_ELEM_SPACE]
    /\ decoder.timing.kalman.P[K_ELEM_SPACE][K_ELEM_SPACE]
         # last.pre.P[K_ELEM_SPACE][K_ELEM_SPACE]
    /\ \A j \in States \ {K_ELEM_SPACE} :
         decoder.timing.kalman.x[j] = last.pre.x[j]

(***************************************************************************)
(* SpecWpm: the decoder of Spec created with speed bounds that admit the   *)
(* initial speed (min_wpm <= initial_wpm <= max_wpm), driven by the same   *)
(* process, finalize and reset calls; the speed read back by               *)
(* cw_decoder_get_wpm.  kalman_get_wpm turns the log-state back into a     *)
(* duration with expf, computed here by its series in millionths, not by   *)
(* reading the logarithm table backwards: both conversions round.          *)
(***************************************************************************)

\* 1 sample in the unit of ExpMicro, and 1 WPM in the unit of get_wpm
ExpOne == 1000000
WpmOne == 1000

\* term * (y / LnOne) / n without leaving 32 bits
SeriesStep(term, y, n) ==
    ((term \div LnOne) * y) \div n + ((term % LnOne) * y) \div (LnOne * n)

RECURSIVE ExpSeries(_, _, _, _)
ExpSeries(y, n, term, sum) ==
    IF term = 0 THEN sum
    ELSE ExpSeries(y, n + 1, SeriesStep(term, y, n + 1), sum + term)

\* expf(y), y in units of 1 / LnOne, in units of 1 / ExpOne
ExpMicro(y) == ExpSeries(y, 0, ExpOne, 0)

\* the quotient 1.2f / dit_s of kalman_get_wpm, dit_samples in thousandths
WpmOfDit(sample_rate, dit_milli) ==
    IF dit_milli <= 0 THEN 20 * WpmOne
    ELSE RDiv(12 * sample_rate * 100 * WpmOne, dit_milli)

\* float kalman_get_wpm(const kalman_t *k), in units of 1 / WpmOne
kalman_get_wpm(k) == WpmOfDit(k.sample_rate, RDiv(ExpMicro(k.x[K_DIT]), 1000))

\* float timing_get_wpm(const timing_t *t)
timing_get_wpm(t) ==
    IF t.mode = "KALMAN" THEN kalman_get_wpm(t.kalman)
    ELSE WpmOfDit(t.sample_rate, t.avg_dit)

\* float cw_decoder_get_wpm(const cw_decoder_t *dec)
cw_decoder_get_wpm(dec) == timing_get_wpm(dec.timing)

\* (min_wpm, initial_wpm, max_wpm): the defaults, the initial speed on the
\* lower bound, and a single speed.
WpmConfigs == {<<5, 20, 60>>, <<15, 15, 30>>, <<20, 20, 20>>}

InitWpm ==
    /\ \E b \in WpmConfigs :
         decoder = cw_decoder_create([cfg EXCEPT !.min_wpm = b[1],
                                                 !.initial_wpm = b[2],
                                                 !.max_wpm = b[3]])
    /\ last = [op |-> "create"]
    /\ calls = 0
    /\ sig = <<>>
    /\ acc = <<>>
    /\ UnitIdle

SpecWpm == InitWpm /\ [][Next]_vars

\* C16: in Kalman mode with min_wpm <= initial_wpm <= max_wpm the speed
\* returned by cw_decoder_get_wpm lies within [min_wpm, max_wpm] after any
\* sequence of process, finalize and reset calls.
C16_WpmWithinBounds ==
    last.op \in {"process", "finalize", "reset"}
        => Within(cw_decoder_get_wpm(decoder),
                  decoder.cfg.min_wpm * WpmOne, decoder.cfg.max_wpm * WpmOne)

\* The speed stays within one hundredth of a WPM of the bounds.
WpmNearBounds ==
    Within(cw_decoder_get_wpm(decoder),
           decoder.cfg.min_wpm * WpmOne - 10, decoder.cfg.max_wpm * WpmOne + 10)

(***************************************************************************)
(* SpecNoise: a decoder at 150 Hz, where a dit at the initial 20 WPM lasts *)
(* 9 samples and min_dur is 2, fed on/off samples whose marks all end      *)
(* before they reach min_dur, chunks of zero audio, and finalize calls.    *)
(* calls counts the samples, acc collects every byte written.              *)
(***************************************************************************)

\* Samples in a behaviour: enough for a word gap (41 samples) between marks.
MaxNoise == 48

NoiseRate == 150

NoiseDecoder == cw_decoder_create([cfg EXCEPT !.sample_rate = NoiseRate])

\* min_dur of classify_signal_kalman at 150 Hz and 20 WPM: (int)(9 * 0.30)
NoiseFloor == 2

\* Lengths of the chunks of zero audio.
SilentChunks == {8, 24}

InitNoise ==
    /\ decoder = NoiseDecoder
    /\ last = [op |-> "create", out |-> <<>>, elem |-> ELEM_NONE,
               words |-> 0, pending |-> FALSE]
    /\ calls = 0
    /\ sig = <<>>
    /\ acc = <<>>
    /\ UnitIdle

\* One sample of the on/off trace through timing, pattern and output filter;
\* a mark is cut before it lasts min_dur samples.
NoiseSample ==
    \E on \in {0, 1} :
        /\ calls < MaxNoise
        /\ on = 1 => decoder.timing.on_dur + 1 < NoiseFloor
        /\ \E r \in {ElementLoop(decoder, <<on>>, 1, <<>>, BigOut)},
              e \in {timing_process_sample(decoder.timing, on).elem} :
               /\ decoder' = r.dec
               /\ acc' = acc \o r.out
               /\ last' = [op |-> "sample", out |-> r.out, elem |-> e,
                           words |-> IF e = ELEM_WORD THEN 1 ELSE last.words,
                           pending |-> FALSE]
        /\ calls' = calls + 1
        /\ UNCHANGED <<sig, unitVars>>

\* cw_decoder_process on constant zero audio, after a mark has ended.
SilentAudio ==
    \E n \in SilentChunks, out_len \in OutLens :
        /\ calls + n <= MaxNoise
        /\ decoder.timing.on_dur = 0
        /\ \E r \in {cw_decoder_process(decoder, Audio(<<0, n>>), out_len)} :
               /\ decoder' = r.dec
               /\ acc' = acc \o r.out
               /\ last' = [op |-> "process", out |-> r.out, elem |-> ELEM_NONE,
                           words |-> last.words, pending |-> FALSE]
        /\ calls' = calls + n
        /\ UNCHANGED <<sig, unitVars>>

NoiseFinalize ==
    \E out_len \in OutLens :
        /\ last.op # "finalize"
        /\ \E r \in {cw_decoder_finalize(decoder, out_len)} :
               /\ decoder' = r.dec
               /\ acc' = acc \o r.out
               /\ last' = [op |-> "finalize", out |-> r.out, elem |-> ELEM_NONE,
                           words |-> last.words,
                           pending |-> (decoder.timing.on_dur > 0
                                        /\ decoder.timing.seen_signal = 1)]
        /\ UNCHANGED <<calls, sig, unitVars>>

NextNoise == NoiseSample \/ SilentAudio \/ NoiseFinalize

SpecNoise == InitNoise /\ [][NextNoise]_vars

\* The marks of SpecNoise are cut below the min_dur the decoder applies.
NoiseFloorIsMinDur == MinDurKalman(decoder.timing) = NoiseFloor

\* C17: if the input contains no mark of at least min_dur samples (all off,
\* such as constant zero audio, or only marks shorter than the noise floor),
\* process and finalize write 0 bytes, warmed_up stays false and get_wpm
\* still returns the initial estimate.
C17_NoiseIsSilent ==
    /\ last.out = <<>>
    /\ acc = <<>>
    /\ decoder.output.warmed_up = 0
    /\ cw_decoder_get_wpm(decoder) = cw_decoder_get_wpm(NoiseDecoder)
    /\ decoder.timing.kalman = NoiseDecoder.timing.kalman

\* finalize with a short mark pending, after short marks a word gap apart.
C17_WitnessShortMarks ==
    /\ last.op = "finalize"
    /\ last.pending
    /\ last.words = 1
    /\ decoder.timing.on_dur = 0

(***************************************************************************)
(* SpecRoom: process and finalize calls on the decoder of Spec with output *)
(* buffers of 0, 1, 2 and MaxOut bytes, on marks of one and three dits and *)
(* gaps of a character and a word.  Each call is also evaluated from the   *)
(* same state with room for BigOut bytes; last.full is what it writes.     *)
(***************************************************************************)

MaxRoomCalls == 5

RoomChunks == {<<1, 3>>, <<1, 9>>, <<0, 6>>, <<0, 24>>}

RoomLens == {0, 1, 2, MaxOut}

RoomProcess ==
    \E c \in RoomChunks, out_len \in RoomLens :
        /\ calls < MaxRoomCalls
        /\ \E r \in {cw_decoder_process(decoder, Audio(c), out_len)},
              u \in {cw_decoder_process(decoder, Audio(c), BigOut)} :
               /\ decoder' = r.dec
               /\ last' = [op |-> "process", out_len |-> out_len,
                           out |-> r.out, full |-> u.out]
        /\ calls' = calls + 1
        /\ UNCHANGED <<sig, acc, unitVars>>

RoomFinalize ==
    \E out_len \in RoomLens :
        /\ calls < MaxRoomCalls
        /\ \E r \in {cw_decoder_finalize(decoder, out_len)},
              u \in {cw_decoder_finalize(decoder, BigOut)} :
               /\ decoder' = r.dec
               /\ last' = [op |-> "finalize", out_len |-> out_len,
                           out |-> r.out, full |-> u.out]
        /\ calls' = calls + 1
        /\ UNCHANGED <<sig, acc, unitVars>>

NextRoom == RoomProcess \/ RoomFinalize

SpecRoom == Init /\ [][NextRoom]_vars

IsPrefix(a, b) == Len(a) <= Len(b) /\ SubSeq(b, 1, Len(a)) = a

\* C18: the bytes written by a single process or finalize call into a buffer
\* of out_len bytes are a prefix of the bytes the same call writes from the
\* same state with an unlimited buffer: output is truncated at out_len, never
\* altered or reordered.
C18_TruncatedIsPrefix ==
    last.op \in {"process", "finalize"}
        => /\ Len(last.out) <= last.out_len
           /\ IsPrefix(last.out, last.full)
           /\ Len(last.full) <= last.out_len => last.out = last.full

\* A process call that had room for part of its text only.
C18_WitnessCut ==
    /\ last.op = "process"
    /\ Len(last.out) = last.out_len
    /\ last.out_len > 0
    /\ Len(last.full) > last.out_len
    /\ last.full[1] # last.full[2]

(***************************************************************************)
(* SpecMulti: cw_decode_multi on two channels of equal length, built chunk *)
(* by chunk, with one configuration and output buffers of out_len bytes.   *)
(* sig holds the audio of the two channels.                                *)
(***************************************************************************)

MultiChannels == 2

\* Chunks in the audio of a channel.
MaxMultiChunks == 3

MultiLens == {0, 1, 2, MaxOut}

InitMulti ==
    /\ decoder = FreshDecoder
    /\ last = [op |-> "audio"]
    /\ calls = 0
    /\ sig = <<<<>>, <<>>>>
    /\ acc = <<>>
    /\ UnitIdle

\* n more samples for every channel.
MultiChunk ==
    \E c \in Chunks, level \in {0, 1} :
        /\ last.op = "audio"
        /\ calls < MaxMultiChunks
        /\ Len(sig[1]) + c[2] <= MaxAudio
        /\ sig' = <<sig[1] \o Audio(c), sig[2] \o Audio(<<level, c[2]>>)>>
        /\ calls' = calls + 1
        /\ UNCHANGED <<decoder, last, acc, unitVars>>

\* wrote += cw_decoder_finalize(dec, out_bufs[ch] + wrote, out_len - wrote)
MultiFinalized(w, out_len) ==
    TextJoined(w.out, cw_decoder_finalize(w.dec, out_len - Len(w.out)))

\* out_bufs[ch][wrote < out_len ? wrote : out_len - 1] = '\0': the bytes
\* written, their number and the index that receives the terminator
MultiTerminated(t, out_len) ==
    [out |-> t.out, wrote |-> Len(t.out),
     nul |-> IF Len(t.out) < out_len THEN Len(t.out) ELSE out_len - 1]

\* int cw_decode_multi(cfgs, n_ch, audio, n, out_bufs, out_len): per channel
cw_decode_multi(audio, out_len) ==
    [ch \in DOMAIN audio |->
        MultiTerminated(
            MultiFinalized(cw_decoder_process(FreshDecoder, audio[ch], out_len),
                           out_len),
            out_len)]

DecodeMulti ==
    \E out_len \in MultiLens :
        /\ last.op = "audio"
        /\ last' = [op |-> "multi", out_len |-> out_len,
                    chan |-> cw_decode_multi(sig, out_len)]
        /\ UNCHANGED <<decoder, calls, sig, acc, unitVars>>

NextMulti == MultiChunk \/ DecodeMulti

SpecMulti == InitMulti /\ [][NextMulti]_vars

\* C19: for every channel cw_decode_multi stores the NUL terminator at index
\* wrote, the number of bytes written by process plus finalize for the
\* channel, and never at an index outside [0, out_len) of the channel's
\* buffer, for every out_len >= 0.
C19_NulAtWrote ==
    last.op = "multi"
        => \A ch \in 1..MultiChannels :
               /\ last.chan[ch].nul = last.chan[ch].wrote
               /\ 0 <= last.chan[ch].nul
               /\ last.chan[ch].nul < last.out_len

\* With a buffer of at least one byte the terminator stays inside it.
NulInsideBuffer ==
    (last.op = "multi" /\ last.out_len > 0)
        => \A ch \in 1..MultiChannels :
               0 <= last.chan[ch].nul /\ last.chan[ch].nul < last.out_len

\* With room left after the text the terminator follows the text.
NulAfterText ==
    last.op = "multi"
        => \A ch \in 1..MultiChannels :
               last.chan[ch].wrote < last.out_len
                   => last.chan[ch].nul = last.chan[ch].wrote

\* With a buffer of at least one byte the terminator is off the index wrote
\* only when the text fills the buffer, and then replaces its last byte.
NulOverLastByte ==
    (last.op = "multi" /\ last.out_len > 0)
        => \A ch \in 1..MultiChannels :
               \/ last.chan[ch].nul = last.chan[ch].wrote
               \/ /\ last.chan[ch].wrote = last.out_len
                  /\ last.chan[ch].nul = last.out_len - 1

\* No channel has its text cut short by the terminator.
NulKeepsText ==
    last.op = "multi"
        => \A ch \in 1..MultiChannels : last.chan[ch].nul >= last.chan[ch].wrote

(***************************************************************************)
(* SpecIir: the Butterworth designers called with orders from -1 to 17 and *)
(* band edges below, inside and above the band 0 .. fs / 2, at 8 kHz.  Of  *)
(* the cascade the model keeps n_sections; the coefficients, which do not  *)
(* influence it, are left out.  Edges are in Hz, normalised frequencies in *)
(* thousandths of the Nyquist frequency.                                   *)
(***************************************************************************)

IIR_MAX_SECTIONS == 8

\* float ap_re[16], ap_im[16]
PROTOTYPE_POLES == 16

MaxOrder == 17

Orders == -1..MaxOrder

IirRate == 8000

IirEdges == {-100, 0, 4, 648, 752, 4000, 4400}

\* hz / (fs / 2.0f)
WnMilli(hz, fs) == (hz * 2000) \div fs

\* void iir_design_lowpass(f, order, cutoff_hz, fs): n_sections
iir_design_lowpass(order, cutoff_hz, fs) ==
    IF order < 1 \/ order > 2 * IIR_MAX_SECTIONS THEN 0
    ELSE (order \div 2) + (order % 2)

\* if (sec_idx < IIR_MAX_SECTIONS) { ...; sec_idx++; }
AddSection(sec_idx) == IF sec_idx < IIR_MAX_SECTIONS THEN sec_idx + 1 ELSE sec_idx

\* for (k = 0; k < order; k++): two sections for each prototype pole
RECURSIVE BandpassPoles(_, _, _)
BandpassPoles(k, order, sec_idx) ==
    IF k >= order THEN sec_idx
    ELSE BandpassPoles(k + 1, order, AddSection(AddSection(sec_idx)))

\* iir_design_bandpass once the order is known to be at least 1
BandpassEdges(order, wn_low, wn_high) ==
    IF wn_low >= wn_high THEN {0}
    ELSE IF order > PROTOTYPE_POLES THEN 0..IIR_MAX_SECTIONS
    ELSE {BandpassPoles(0, order, 0)}

\* void iir_design_bandpass(f, order, low_hz, high_hz, fs): the values
\* n_sections can have on return.  butter_analog_poles writes past ap_re[16]
\* for an order above 16 (undefined behaviour): any count is possible.
iir_design_bandpass(order, low_hz, high_hz, fs) ==
    IF order < 1 THEN {0}
    ELSE BandpassEdges(order,
                       IF WnMilli(low_hz, fs) <= 0 THEN 1 ELSE WnMilli(low_hz, fs),
                       IF WnMilli(high_hz, fs) >= 1000 THEN 999 ELSE WnMilli(high_hz, fs))

InitIir ==
    /\ UnitIdle
    /\ DecoderIdle

DesignLowpass ==
    \E order \in Orders, cutoff \in IirEdges :
        /\ last' = [op |-> "lowpass", order |-> order, low |-> 0, high |-> cutoff,
                    n_sections |-> iir_design_lowpass(order, cutoff, IirRate)]
        /\ UNCHANGED <<decoder, calls, sig, acc, unitVars>>

DesignBandpass ==
    \E order \in Orders, low \in IirEdges, high \in IirEdges :
        \E n \in iir_design_bandpass(order, low, high, IirRate) :
            /\ last' = [op |-> "bandpass", order |-> order, low |-> low,
                        high |-> high, n_sections |-> n]
            /\ UNCHANGED <<decoder, calls, sig, acc, unitVars>>

NextIir == DesignLowpass \/ DesignBandpass

SpecIir == InitIir /\ [][NextIir]_vars

Designed == last.op \in {"lowpass", "bandpass"}

\* The request of the last call is invalid: order outside [1, 10], or band
\* edges with low >= high.
InvalidRequest ==
    \/ last.order < 1 \/ last.order > 10
    \/ last.op = "bandpass" /\ last.low >= last.high

\* Conjugate pole pairs of a filter of the requested order (a real pole of an
\* odd-order lowpass counts as one): a lowpass has order poles, a bandpass
\* two for every prototype pole.
PolePairs == IF last.op = "lowpass" THEN (last.order + 1) \div 2 ELSE last.order

\* C20: the Butterworth designers return an empty cascade (n_sections = 0)
\* for every invalid request (order outside [1, 10], or band edges with
\* low >= high), and for every valid order in [1, 10] return a cascade of at
\* most 8 sections that contains one section per pole pair of the requested
\* order.
C20_DesignerContract ==
    Designed => IF InvalidRequest THEN last.n_sections = 0
                ELSE /\ last.n_sections <= IIR_MAX_SECTIONS
                     /\ last.n_sections = PolePairs

\* No cascade has more than 8 sections when the prototype poles fit.
SectionsAtMostEight ==
    (Designed /\ last.order <= PROTOTYPE_POLES) => last.n_sections <= IIR_MAX_SECTIONS

\* An order below 1 and band edges with low >= high give an empty cascade.
RejectedIsEmpty ==
    (Designed /\ (last.order < 1 \/ (last.op = "bandpass" /\ last.low >= last.high)))
        => last.n_sections = 0

\* The lowpass designer follows the contract for the orders 1 to 10.
LowpassPerPolePair ==
    (last.op = "lowpass" /\ last.order \in 1..10) => last.n_sections = PolePairs

(***************************************************************************)
(* SpecWindow: multipass_init called directly with window sizes and pass   *)
(* counts inside and outside their ranges, and through envelope_init with  *)
(* sample rates and smoothing windows that give small, even, odd and       *)
(* oversized windows.  last.mp is the smoother after the call.             *)
(***************************************************************************)

WindowSizes == {-1, 0, 2, 3, 4, 5, 6, 254, 255, 256, 257, 300}

PassCounts == -1..9

WindowRates == {50, 100, 200, 800, 1500}

\* envelope_window_s in milliseconds: the default and half a second
WindowMs == {5, 500}

InitWindow ==
    /\ UnitIdle
    /\ DecoderIdle

MultipassInit ==
    \E n_passes \in PassCounts, window_size \in WindowSizes :
        /\ last' = [op |-> "multipass_init", passes |-> n_passes,
                    window |-> window_size, rate |-> 0,
                    mp |-> multipass_init(n_passes, window_size)]
        /\ UNCHANGED <<decoder, calls, sig, acc, unitVars>>

EnvelopeInit ==
    \E rate \in WindowRates, ms \in WindowMs, mp_passes \in 1..9 :
        /\ last' = [op |-> "envelope_init", passes |-> mp_passes,
                    window |-> ms, rate |-> rate,
                    mp |-> envelope_init(rate, ms, cfg.threshold_on,
                                         cfg.threshold_off, "MULTIPASS", mp_passes).mpf]
        /\ UNCHANGED <<decoder, calls, sig, acc, unitVars>>

NextWindow == MultipassInit \/ EnvelopeInit

SpecWindow == InitWindow /\ [][NextWindow]_vars

Initialized == last.op \in {"multipass_init", "envelope_init"}

\* C21: after initialization with any requested window size and pass count
\* (directly via multipass_init or via envelope_init from any sample rate
\* and envelope window) the smoother's window_size is odd, >= 5 and <= 255,
\* and n_passes is in [1, 8].
C21_WindowOddInRange ==
    Initialized => /\ last.mp.window_size % 2 = 1
                   /\ last.mp.window_size >= 5
                   /\ last.mp.window_size <= 255
                   /\ last.mp.n_passes \in 1..MULTIPASS_MAX_PASSES

\* The window is odd, at least 3 and at most MULTIPASS_MAX_WINDOW + 1, with
\* 1 to 8 passes.
WindowOddUpTo257 ==
    Initialized => /\ last.mp.window_size % 2 = 1
                   /\ last.mp.window_size >= 3
                   /\ last.mp.window_size <= MULTIPASS_MAX_WINDOW + 1
                   /\ last.mp.n_passes \in 1..MULTIPASS_MAX_PASSES

\* envelope_init never leaves a window below 5.
EnvelopeWindowAtLeastFive ==
    last.op = "envelope_init" => last.mp.window_size >= 5

\* A requested window of 5 to 255 gives a window in the claimed range.
WindowInRangeKept ==
    (last.op = "multipass_init" /\ last.window \in 5..255)
        => /\ last.mp.window_size \in 5..255
           /\ last.mp.window_size % 2 = 1

(***************************************************************************)
(* SpecEmpty: the calls of Spec, and cw_decoder_process with n = 0 at any  *)
(* point between them.  last.pre is the decoder before the empty call.     *)
(***************************************************************************)

ProcessEmpty ==
    \E out_len \in OutLens :
        /\ calls < MaxCalls
        /\ \E r \in {cw_decoder_process(decoder, <<>>, out_len)} :
               /\ decoder' = r.dec
               /\ last' = [op |-> "empty", n |-> 0, out_len |-> out_len,
                           out |-> r.out, fed |-> r.fed, dirty |-> FALSE,
                           pre |-> decoder]
        /\ calls' = calls + 1
        /\ UNCHANGED <<sig, acc, unitVars>>

NextEmpty == Process \/ Finalize \/ Reset \/ ProcessEmpty

SpecEmpty == Init /\ [][NextEmpty]_vars

\* C23: cw_decoder_process called with n = 0 returns 0 and leaves every field
\* of the decoder state (filter states, envelope peak and on/off bit, timing
\* counters and estimator, pattern buffer, word buffer, warmed_up) unchanged.
C23_EmptyChunkNoEffect ==
    last.op = "empty" => /\ last.out = <<>>
                         /\ decoder = last.pre

\* An empty chunk with room in out, on a decoder that has tracked a peak, is
\* inside a gap after a mark, and holds a pattern.
C23_WitnessBusyDecoder ==
    /\ last.op = "empty"
    /\ last.out_len > 0
    /\ decoder.envelope.peak_level > 0
    /\ decoder.timing.seen_signal = 1
    /\ decoder.timing.off_dur > 0
    /\ decoder.pattern # <<>>

(***************************************************************************)
(* SpecTiming: the timing FSM alone, in Kalman and in EMA mode, fed one    *)
(* on/off sample at a time and finalized at the end.  min_dur is 2 samples *)
(* (through min_element_abs, or through min_element_ratio), a dit lasts 3. *)
(* Marks end after 1 (noise), 2, 3 or 9 samples, gaps between marks after  *)
(* 3, 9 or 21 samples; the silence before the first mark has any length up *)
(* to 21.  last.pre is the FSM before the call, last.prev the previous      *)
(* sample (0 before the first), last.noise whether the mark that ended     *)
(* last was rejected as noise; calls counts the samples of the run of      *)
(* equal samples that the last sample belongs to.                          *)
(***************************************************************************)

\* Marks classified in a behaviour: the warm-up and three more.
MaxElements == 11

MarkLengths == {1, 2, 3, 9}

GapLengths == {3, 9, 21}

TimingModes == {"KALMAN", "EMA"}

\* (min_element_ratio in per cent, min_element_ms)
NoiseFloors == {<<30, 40>>, <<90, 10>>}

InitTiming ==
    /\ \E m \in TimingModes, f \in NoiseFloors :
         decoder = cw_decoder_create([cfg EXCEPT !.timing_mode = m,
                                                 !.min_element_ratio = f[1],
                                                 !.min_element_ms = f[2]])
    /\ last = [op |-> "create", on |-> 0, prev |-> 0, elem |-> ELEM_NONE,
               pre |-> <<>>, marks |-> 0, noise |-> FALSE]
    /\ calls = 0
    /\ sig = <<>>
    /\ acc = <<>>
    /\ UnitIdle

\* The sample on may follow the samples so far.
SampleAllowed(t, on) ==
    IF on = 1
    THEN IF t.prev_on = 1 THEN t.on_dur < SetMax(MarkLengths)
         ELSE t.seen_signal = 1 => t.off_dur \in GapLengths
    ELSE IF t.prev_on = 1 THEN t.on_dur \in MarkLengths
         ELSE t.off_dur < SetMax(GapLengths)

TimingSample ==
    \E on \in {0, 1} :
        /\ last.op # "finalize"
        /\ SampleAllowed(decoder.timing, on)
        /\ (on = 1 /\ decoder.timing.prev_on = 0) => last.marks < MaxElements
        /\ \E r \in {timing_process_sample(decoder.timing, on)} :
               /\ decoder' = [decoder EXCEPT !.timing = r.t]
               /\ last' = [op |-> "sample", on |-> on, prev |-> last.on,
                           elem |-> r.elem, pre |-> decoder.timing,
                           marks |-> IF on = 1 /\ decoder.timing.prev_on = 0
                                     THEN last.marks + 1 ELSE last.marks,
                           noise |-> IF on = 0 /\ decoder.timing.prev_on = 1
                                     THEN r.elem = ELEM_NONE ELSE last.noise]
        /\ calls' = IF on = last.on THEN calls + 1 ELSE 1
        /\ UNCHANGED <<sig, acc, unitVars>>

TimingFinalize ==
    /\ last.op = "sample"
    /\ \E r \in {timing_finalize(decoder.timing)} :
           /\ decoder' = [decoder EXCEPT !.timing = r.t]
           /\ last' = [op |-> "finalize", on |-> last.on, prev |-> last.on,
                       elem |-> r.elem, pre |-> decoder.timing,
                       marks |-> last.marks, noise |-> last.noise]
    /\ UNCHANGED <<calls, sig, acc, unitVars>>

NextTiming == TimingSample \/ TimingFinalize

SpecTiming == InitTiming /\ [][NextTiming]_vars

\* C24: timing_process_sample returns a non-NONE event only on a sample whose
\* bit differs from the previous bit: DIT or DAH only on a 1-to-0 edge, CHAR
\* or WORD only on a 0-to-1 edge; every sample equal to its predecessor
\* returns NONE.
C24_EventsOnEdges ==
    last.op = "sample"
        => /\ last.elem \in {ELEM_NONE, ELEM_DIT, ELEM_DAH, ELEM_CHAR, ELEM_WORD}
           /\ last.elem \in {ELEM_DIT, ELEM_DAH} => (last.prev = 1 /\ last.on = 0)
           /\ last.elem \in {ELEM_CHAR, ELEM_WORD} => (last.prev = 0 /\ last.on = 1)
           /\ last.prev = last.on => last.elem = ELEM_NONE

\* A word gap reported on the first sample of the mark that ends it.
C24_WitnessWordOnRisingEdge ==
    /\ last.op = "sample"
    /\ last.elem = ELEM_WORD
    /\ last.prev = 0 /\ last.on = 1
    /\ last.pre.off_dur = 21

\* finalize was called with a mark in progress.
MarkPending == last.op = "finalize" /\ last.pre.on_dur > 0

\* C25: timing_finalize emits the pending element whenever a mark is in
\* progress at end of stream (on_dur > 0), for every stream, including a
\* stream whose very first mark is still in progress when it ends: it
\* returns the classification of the pending mark and clears it.
C25_FinalizeEmitsPending ==
    MarkPending => /\ last.elem = classify_signal(last.pre, last.pre.on_dur).elem
                   /\ decoder.timing.on_dur = 0

\* The pending mark is emitted and cleared when an earlier mark has ended.
FinalizeEmitsLaterMark ==
    (MarkPending /\ last.pre.seen_signal = 1)
        => /\ last.elem = classify_signal(last.pre, last.pre.on_dur).elem
           /\ decoder.timing.on_dur = 0

\* The first mark of a stream, pending at finalize, is neither emitted nor
\* cleared.
FinalizeKeepsFirstMark ==
    (MarkPending /\ last.pre.seen_signal = 0)
        => /\ last.elem = ELEM_NONE
           /\ decoder.timing = last.pre

\* The Kalman state, and the speed, of the decoder as created.
InitialKalman == cw_decoder_create(decoder.cfg).timing.kalman

\* The state a returned element belongs to; a gap that returns NONE is an
\* element space.
BucketOf(elem) ==
    CASE elem = ELEM_DIT  -> K_DIT
      [] elem = ELEM_DAH  -> K_DAH
      [] elem = ELEM_CHAR -> K_CHAR_SPACE
      [] elem = ELEM_WORD -> K_WORD_SPACE
      [] OTHER            -> K_ELEM_SPACE

KalmanSample == last.op = "sample" /\ decoder.timing.mode = "KALMAN"

\* The last sample ended a mark that was classified.
MarkClassified ==
    last.prev = 1 /\ last.on = 0 /\ last.elem \in {ELEM_DIT, ELEM_DAH}

\* The last sample ended a gap between marks.
GapEnded == last.prev = 0 /\ last.on = 1 /\ last.pre.seen_signal = 1

\* C26: in Kalman mode no kalman_update is applied, for marks or for gaps,
\* while element_count <= 8: the Kalman state and get_wpm stay at their
\* initial values until the ninth accepted mark; afterwards each classified
\* mark or gap (including an element-space gap that returns NONE) updates
\* exactly the bucket it was classified into, with its duration.
C26_WarmupThenBucket ==
    KalmanSample =>
        /\ decoder.timing.element_count <= TIMING_KALMAN_WARMUP
             => /\ decoder.timing.kalman = InitialKalman
                /\ cw_decoder_get_wpm(decoder)
                     = cw_decoder_get_wpm(cw_decoder_create(decoder.cfg))
        /\ decoder.timing.element_count > TIMING_KALMAN_WARMUP
             => decoder.timing.kalman
                  = IF MarkClassified
                    THEN kalman_update(last.pre.kalman, BucketOf(last.elem),
                                       last.pre.on_dur).k
                    ELSE IF GapEnded
                    THEN kalman_update(last.pre.kalman, BucketOf(last.elem),
                                       last.pre.off_dur).k
                    ELSE last.pre.kalman

\* After the warm-up a gap of one dit returned NONE and updated the Kalman
\* filter, which an earlier mark had moved from its initial state.
C26_WitnessElementSpace ==
    /\ KalmanSample /\ GapEnded
    /\ last.elem = ELEM_NONE
    /\ last.pre.element_count > TIMING_KALMAN_WARMUP
    /\ last.pre.kalman.x # InitialKalman.x
    /\ decoder.timing.kalman # last.pre.kalman

\* The last sample came before the first 1-to-0 edge: in the silence before
\* the first mark, or inside the first mark.
BeforeFirstFall ==
    last.op = "sample" /\ (last.marks = 0 \/ (last.marks = 1 /\ last.on = 1))

\* C28: no CHAR or WORD event is produced before the first 1-to-0 edge:
\* leading silence of any length is never classified as a gap and never
\* changes the estimator.
C28_LeadingSilenceIgnored ==
    BeforeFirstFall
        => /\ last.elem = ELEM_NONE
           /\ decoder.timing.seen_signal = 0
           /\ decoder.timing.kalman = InitialKalman
           /\ decoder.timing.avg_dit = cw_decoder_create(decoder.cfg).timing.avg_dit
           /\ decoder.timing.element_count = 0

\* The first mark begins after a silence as long as a word gap.
C28_WitnessWordGapOfSilence ==
    /\ BeforeFirstFall
    /\ last.prev = 0 /\ last.on = 1
    /\ last.pre.off_dur = SetMax(GapLengths)
    /\ decoder.timing.off_dur = 0

\* The FSM and the result after the end-of-mark branch alone has run on the
\* FSM pre, and after the end-of-gap branch alone.
OnlyMarkEnded(pre) ==
    [t |-> [classify_signal(CountSample(pre, 0), pre.on_dur).t
              EXCEPT !.on_dur = 0, !.seen_signal = 1, !.prev_on = 0],
     elem |-> classify_signal(CountSample(pre, 0), pre.on_dur).elem]

OnlyGapEnded(pre) ==
    IF pre.seen_signal = 1
    THEN [t |-> [classify_gap(CountSample(pre, 1), pre.off_dur).t
                   EXCEPT !.off_dur = 0, !.prev_on = 1],
          elem |-> classify_gap(CountSample(pre, 1), pre.off_dur).elem]
    ELSE [t |-> [CountSample(pre, 1) EXCEPT !.off_dur = 0, !.prev_on = 1],
          elem |-> ELEM_NONE]

\* C34: in a single timing_process_sample call at most one of the two
\* classification branches (end of mark, end of gap) runs, so a DIT/DAH
\* result is never replaced by a gap result and no signal event is ever lost
\* to the 'gap overrides pending output' assignment.
C34_OneBranchPerCall ==
    last.op = "sample"
        => /\ (last.prev = 1 /\ last.on = 0)
                => /\ decoder.timing = OnlyMarkEnded(last.pre).t
                   /\ last.elem = OnlyMarkEnded(last.pre).elem
           /\ (last.prev = 0 /\ last.on = 1)
                => /\ decoder.timing = OnlyGapEnded(last.pre).t
                   /\ last.elem = OnlyGapEnded(last.pre).elem
           /\ last.prev = last.on
                => /\ decoder.timing = [CountSample(last.pre, last.on)
                                          EXCEPT !.prev_on = last.on]
                   /\ last.elem = ELEM_NONE

\* A mark after the first one ended and was returned as a dah; the gap in
\* progress has lasted the one sample of this call.
C34_WitnessDahKept ==
    /\ last.op = "sample"
    /\ last.prev = 1 /\ last.on = 0
    /\ last.elem = ELEM_DAH
    /\ last.pre.seen_signal = 1
    /\ decoder.timing.off_dur = 1
    /\ decoder.timing.on_dur = 0

\* The action: the run of equal samples that a sample ends has calls
\* samples, and that is the duration its classifier is handed.
RunClassified ==
    (last'.op = "sample" /\ last'.prev # last'.on)
        => /\ last'.on = 0
                => /\ decoder.timing.on_dur = calls
                   /\ last'.elem = classify_signal(CountSample(decoder.timing, 0),
                                                   calls).elem
           /\ (last'.on = 1 /\ decoder.timing.seen_signal = 1)
                => /\ decoder.timing.off_dur = calls
                   /\ last'.elem = classify_gap(CountSample(decoder.timing, 1),
                                                calls).elem

\* After a call exactly one of on_dur and off_dur is non-zero, the one of
\* the last sample.
OneDurationRuns ==
    last.op = "sample"
        => /\ decoder.timing.prev_on = last.on
           /\ decoder.timing.prev_on = 1
                => (decoder.timing.on_dur >= 1 /\ decoder.timing.off_dur = 0)
           /\ decoder.timing.prev_on = 0
                => (decoder.timing.on_dur = 0 /\ decoder.timing.off_dur >= 1)

RejectedMarkSplitsGap ==
    /\ (last'.op = "sample" /\ last'.prev = 1 /\ last'.on = 0
          /\ last'.elem = ELEM_NONE)
         => /\ decoder'.timing.seen_signal = 1
            /\ decoder'.timing.off_dur = 1
            /\ decoder'.timing.on_dur = 0
            /\ (calls = 1 /\ last.pre.seen_signal = 1)
                 => /\ last.elem = classify_gap(CountSample(last.pre, 1),
                                                last.pre.off_dur).elem
                    /\ decoder.timing.off_dur = 0
    /\ (last'.op = "sample" /\ last'.prev = 0 /\ last'.on = 1 /\ last.noise)
         => /\ decoder.timing.off_dur = calls
            /\ last'.elem = classify_gap(CountSample(decoder.timing, 1),
                                         calls).elem
            /\ decoder'.timing.off_dur = 0

\* C36: a noise-rejected mark still ends the gap in progress: the silence
\* before it is classified at its rising edge (and may emit CHAR or WORD),
\* off_dur restarts at its falling edge, and seen_signal is set, so the
\* silences on either side of the rejected mark are never merged into one
\* gap.
C36_RejectedMarkEndsGap == [][RejectedMarkSplitsGap]_vars

\* After a rejected mark a silence of 9 samples ended and was classified as
\* a character gap.
C36_WitnessGapAfterRejected ==
    /\ last.op = "sample"
    /\ last.prev = 0 /\ last.on = 1
    /\ last.noise
    /\ last.pre.off_dur = 9
    /\ last.elem = ELEM_CHAR
    /\ last.pre.element_count > 0

(***************************************************************************)
(* SpecGlitch: the sample loop of cw_decoder_process (timing, pattern and  *)
(* output filter) on the decoders of SpecTiming, one on/off sample at a    *)
(* time.  Marks end after 1 (noise), 3 or 9 samples, gaps between marks    *)
(* after 3 or 9 samples.  last.pre is the decoder before the sample.       *)
(***************************************************************************)

\* Marks in a behaviour.
MaxGlitchMarks == 4

GlitchMarks == {1, 3, 9}

GlitchGaps == {3, 9}

\* The sample on may follow the samples so far.
GlitchAllowed(t, on) ==
    IF on = 1
    THEN IF t.prev_on = 1 THEN t.on_dur < SetMax(GlitchMarks)
         ELSE t.seen_signal = 1 => t.off_dur \in GlitchGaps
    ELSE IF t.prev_on = 1 THEN t.on_dur \in GlitchMarks
         ELSE t.off_dur < SetMax(GlitchGaps)

\* One iteration of the sample loop of cw_decoder_process.
GlitchSample ==
    \E on \in {0, 1} :
        /\ GlitchAllowed(decoder.timing, on)
        /\ (on = 1 /\ decoder.timing.prev_on = 0) => last.marks < MaxGlitchMarks
        /\ \E r \in {ElementLoop(decoder, <<on>>, 1, <<>>, BigOut)},
              e \in {timing_process_sample(decoder.timing, on).elem} :
               /\ decoder' = r.dec
               /\ acc' = acc \o r.out
               /\ last' = [op |-> "sample", on |-> on, prev |-> last.on,
                           elem |-> e, pre |-> decoder,
                           marks |-> IF on = 1 /\ decoder.timing.prev_on = 0
                                     THEN last.marks + 1 ELSE last.marks]
        /\ UNCHANGED <<calls, sig, unitVars>>

NextGlitch == GlitchSample

SpecGlitch == InitTiming /\ [][NextGlitch]_vars

\* max(floor(min_element_ratio * dit_est), min_element_abs), dit_est being
\* the Kalman dit duration or the EMA dit average.
MinDurOf(t) ==
    IF t.mode = "KALMAN"
    THEN Max(FloorExp(t.kalman.x[K_DIT] + LN(t.min_element_ratio) - LN(100)),
             t.min_element_abs)
    ELSE Max((t.avg_dit * t.min_element_ratio) \div (100 * LnOne),
             t.min_element_abs)

\* The last sample ended a mark shorter than min_dur.
ShortMarkEnded ==
    /\ last.op = "sample"
    /\ last.prev = 1 /\ last.on = 0
    /\ last.pre.timing.on_dur < MinDurOf(last.pre.timing)

\* C27: a mark shorter than min_dur = max(floor(min_element_ratio * dit_est),
\* min_element_abs) yields NONE and leaves element_count, the dit estimate,
\* the Kalman state and the pattern buffer unchanged.
C27_ShortMarkIgnored ==
    ShortMarkEnded
        => /\ last.elem = ELEM_NONE
           /\ decoder.timing.element_count = last.pre.timing.element_count
           /\ decoder.timing.avg_dit = last.pre.timing.avg_dit
           /\ decoder.timing.kalman = last.pre.timing.kalman
           /\ decoder.pattern = last.pre.pattern
           /\ decoder.output = last.pre.output

\* A short mark ended after a classified mark that is still in the pattern
\* buffer.
C27_WitnessShortMarkInChar ==
    /\ ShortMarkEnded
    /\ last.pre.pattern # <<>>
    /\ last.pre.timing.element_count > 0

(***************************************************************************)
(* SpecCarry: the moving-average smoother alone, with 1 or 2 passes and a  *)
(* window of 5 or 7 samples, fed chunks of constant level that are shorter *)
(* than, as long as and longer than M - 1.  calls counts the samples fed,  *)
(* sig collects them, acc collects the filtered samples, the output of the *)
(* last pass.                                                              *)
(***************************************************************************)

\* Samples in a behaviour.
MaxCarry == 10

CarryPasses == {1, 2}

CarryWindows == {5, 7}

CarryChunks == {1, 2, 4, 6, 8}

CarryLevels == {0, AmpOne}

InitCarry ==
    /\ \E p \in CarryPasses, w \in CarryWindows :
         decoder = [FreshDecoder EXCEPT !.envelope.mpf = multipass_init(p, w)]
    /\ last = [op |-> "init", n |-> 0]
    /\ calls = 0
    /\ sig = <<>>
    /\ acc = <<>>
    /\ UnitIdle

\* multipass_process on a chunk of n samples of one level.
CarryChunk ==
    \E n \in CarryChunks, level \in CarryLevels :
        /\ calls + n <= MaxCarry
        /\ \E r \in {multipass_process(decoder.envelope.mpf,
                                       [i \in 1..n |-> level])} :
               /\ decoder' = [decoder EXCEPT !.envelope.mpf = r.mp]
               /\ acc' = acc \o r.data
               /\ last' = [op |-> "chunk", n |-> n]
        /\ sig' = sig \o [i \in 1..n |-> level]
        /\ calls' = calls + n
        /\ UNCHANGED unitVars

NextCarry == CarryChunk

SpecCarry == InitCarry /\ [][NextCarry]_vars

\* The passes of the smoother, and M - 1.
Passes == 0..(decoder.envelope.mpf.n_passes - 1)

CarryLen == decoder.envelope.mpf.window_size - 1

\* The last k elements of seq.
Trailing(seq, k) == SubSeq(seq, Len(seq) - k + 1, Len(seq))

\* C30: for every pass of the moving-average smoother, once chunks totalling
\* at least M - 1 samples have been processed the carry-over buffer holds
\* exactly the trailing M - 1 samples (buf_len = M - 1) whatever the chunk
\* sizes, and buf_len never exceeds M - 1 or the buffer capacity.
C30_CarryOverFull ==
    /\ \A p \in Passes :
         /\ Len(decoder.envelope.mpf.buffers[p]) <= CarryLen
         /\ Len(decoder.envelope.mpf.buffers[p]) <= MULTIPASS_MAX_WINDOW
         /\ calls >= CarryLen
              => Len(decoder.envelope.mpf.buffers[p]) = CarryLen
    /\ calls >= CarryLen
         => decoder.envelope.mpf.buffers[decoder.envelope.mpf.n_passes - 1]
              = Trailing(acc, CarryLen)

\* buf_len never exceeds M - 1 or the buffer capacity.
CarryWithinBuffer ==
    \A p \in Passes :
        /\ Len(decoder.envelope.mpf.buffers[p]) <= CarryLen
        /\ Len(decoder.envelope.mpf.buffers[p]) <= MULTIPASS_MAX_WINDOW

\* After a chunk of at least M - 1 samples every buffer holds M - 1 samples,
\* the buffer of the last pass the trailing M - 1 filtered samples.
CarryFullAfterLongChunk ==
    (last.op = "chunk" /\ last.n >= CarryLen)
        => /\ \A p \in Passes : Len(decoder.envelope.mpf.buffers[p]) = CarryLen
           /\ decoder.envelope.mpf.buffers[decoder.envelope.mpf.n_passes - 1]
                = Trailing(acc, CarryLen)

\* After a chunk of n < M - 1 samples every buffer holds n samples.
CarryShortAfterShortChunk ==
    (last.op = "chunk" /\ last.n < CarryLen)
        => \A p \in Passes : Len(decoder.envelope.mpf.buffers[p]) = last.n

\* The sum of seq[from..to].
RECURSIVE SumOf(_, _, _)
SumOf(seq, from, to) ==
    IF from > to THEN 0 ELSE seq[from] + SumOf(seq, from + 1, to)

CarryWindow == decoder.envelope.mpf.window_size

\* The running sum of the first pass is the sum of the M most recent samples
\* fed.
SumOfRecent ==
    calls >= CarryWindow
        => decoder.envelope.mpf.running_sum[0]
             = SumOf(sig, calls - CarryWindow + 1, calls)

\* With one pass, every output from the M-th on is the mean of the M most
\* recent samples fed.
MeanOfRecent ==
    decoder.envelope.mpf.n_passes = 1
        => \A i \in CarryWindow..Len(acc) :
             acc[i] = RDiv(SumOf(sig, i - CarryWindow + 1, i), CarryWindow)

\* A constant input comes out as the same constant.
ConstantKept ==
    \A c \in CarryLevels :
        (\A i \in 1..Len(sig) : sig[i] = c) => (\A i \in 1..Len(acc) : acc[i] = c)

\* C31: within each pass of multipass_process the running sum equals the sum
\* of the M most recent input samples of that pass, so that once M samples
\* have been seen each output is their arithmetic mean and a constant input
\* produces that same constant at the output (DC gain 1).
C31_RunningSumIsWindow == SumOfRecent /\ MeanOfRecent /\ ConstantKept

\* Silence comes out as silence.
ZeroKept ==
    (\A i \in 1..Len(sig) : sig[i] = 0) => (\A i \in 1..Len(acc) : acc[i] = 0)

\* With one pass, the first sample c fed comes out as c * (M - 1) / M.
FirstOutputLow ==
    (decoder.envelope.mpf.n_passes = 1 /\ Len(acc) >= 1) => acc[1] = RDiv(sig[1] * (CarryWindow - 1), CarryWindow)

(***************************************************************************)
(* SpecHyst: the envelope detector on very quiet audio.  The levels are    *)
(* counted in units of 1e-11, so that the floor 1e-10f of both thresholds  *)
(* is 10 and levels below it exist.  One pass of a 5-point average; chunks *)
(* of constant level.  last.tmp is the smoothed chunk, last.before the     *)
(* state the chunk started in, calls counts the samples.                   *)
(***************************************************************************)

\* Samples in a behaviour.
MaxHyst == 8

\* 1e-10f in units of 1e-11
HystFloor == 10

HystLevels == {0, 8, 10, 15, 20, 40}

HystChunks == {1, 2, 3}

\* (threshold_on, threshold_off) in per cent
HystThresholds == {<<50, 40>>, <<80, 20>>}

InitHyst ==
    /\ \E th \in HystThresholds :
         decoder = cw_decoder_create([cfg EXCEPT !.multipass_passes = 1,
                                                 !.threshold_on = th[1],
                                                 !.threshold_off = th[2]])
    /\ last = [op |-> "create", tmp |-> <<>>, on_off |-> <<>>, before |-> 0]
    /\ calls = 0
    /\ sig = <<>>
    /\ acc = <<>>
    /\ UnitIdle

\* envelope_process on a chunk of n samples of one level.
HystSegment ==
    \E n \in HystChunks, level \in HystLevels :
        /\ calls + n <= MaxHyst
        /\ \E r \in {EnvelopeSegmentAt(decoder.envelope, [i \in 1..n |-> level],
                                       HystFloor)},
              m \in {multipass_process(decoder.envelope.mpf,
                                       [i \in 1..n |-> level])} :
               /\ decoder' = [decoder EXCEPT !.envelope = r.env]
               /\ last' = [op |-> "segment", tmp |-> m.data, on_off |-> r.on_off,
                           before |-> decoder.envelope.prev_state]
        /\ calls' = calls + n
        /\ UNCHANGED <<sig, acc, unitVars>>

NextHyst == HystSegment

SpecHyst == InitHyst /\ [][NextHyst]_vars

\* The state before sample i of the last chunk.
StateBefore(i) == IF i = 1 THEN last.before ELSE last.on_off[i - 1]

\* peak * threshold_on and peak * threshold_off of the last chunk
PeakOn == PeakTimes(decoder.envelope.peak_level, decoder.envelope.threshold_on)

PeakOff == PeakTimes(decoder.envelope.peak_level, decoder.envelope.threshold_off)

\* The state changes only on a crossing of on (upwards) or off (downwards);
\* a sample in [off, on) leaves it as it was; the state is carried over.
CrossingsOnly(on, off) ==
    last.op = "segment"
        => /\ \A i \in 1..Len(last.on_off) :
                /\ (StateBefore(i) = 0 /\ last.on_off[i] = 1) => last.tmp[i] >= on
                /\ (StateBefore(i) = 1 /\ last.on_off[i] = 0) => last.tmp[i] < off
                /\ (off <= last.tmp[i] /\ last.tmp[i] < on)
                     => last.on_off[i] = StateBefore(i)
           /\ decoder.envelope.prev_state = last.on_off[Len(last.on_off)]

\* C32 as stated: with threshold_off < threshold_on the envelope's on/off
\* state changes only on a threshold crossing: from off it turns on only if
\* the smoothed sample is >= peak*threshold_on, from on it turns off only if
\* the sample is < peak*threshold_off; a sample anywhere in [off_thr,
\* on_thr), including exactly off_thr, leaves the state as it was, and the
\* state carries over from one chunk to the next.
C32_AsStated == CrossingsOnly(PeakOn, PeakOff)

\* C32: the same with on_thr = max(peak*threshold_on, 1e-10) and off_thr =
\* max(peak*threshold_off, 1e-10): from off the state turns on only if the
\* smoothed sample is >= on_thr, from on it turns off only if the sample is
\* < off_thr, a sample in [off_thr, on_thr), including exactly off_thr,
\* leaves the state as it was, and the state carries over between chunks.
C32_CrossingsOfFlooredThresholds ==
    CrossingsOnly(Max(PeakOn, HystFloor), Max(PeakOff, HystFloor))

\* A chunk that began in the on state has a sample exactly at off_thr, above
\* the floor, which left the state on; the state was carried into the chunk.
C32_WitnessExactlyOff ==
    /\ last.op = "segment"
    /\ last.before = 1
    /\ PeakOff > HystFloor
    /\ \E i \in 1..Len(last.on_off) :
         /\ StateBefore(i) = 1
         /\ last.tmp[i] = PeakOff
         /\ last.on_off[i] = 1

\* The state turned off on a sample at or above peak * threshold_off that is
\* below the floor.
TurnedOffBelowFloor ==
    /\ last.op = "segment"
    /\ \E i \in 1..Len(last.on_off) :
         /\ StateBefore(i) = 1 /\ last.on_off[i] = 0
         /\ last.tmp[i] >= PeakOff
         /\ last.tmp[i] < HystFloor

(***************************************************************************)
(* SpecWords: process and finalize calls on the decoder of Spec, on dahs   *)
(* and gaps of a character and of a word, with output buffers of 0, 1, 2   *)
(* and MaxOut bytes.  acc is the concatenation of everything the calls     *)
(* have written.                                                           *)
(***************************************************************************)

MaxWordCalls == 7

WordChunks == {<<1, 9>>, <<0, 9>>, <<0, 24>>}

WordLens == {0, 1, 2, MaxOut}

WordsProcess ==
    \E c \in WordChunks, out_len \in WordLens :
        /\ calls < MaxWordCalls
        /\ \E r \in {cw_decoder_process(decoder, Audio(c), out_len)} :
               /\ decoder' = r.dec
               /\ acc' = acc \o r.out
               /\ last' = [op |-> "process", out_len |-> out_len,
                           out |-> r.out, pre |-> decoder.output]
        /\ calls' = calls + 1
        /\ UNCHANGED <<sig, unitVars>>

WordsFinalize ==
    \E out_len \in WordLens :
        /\ calls < MaxWordCalls
        /\ \E r \in {cw_decoder_finalize(decoder, out_len)} :
               /\ decoder' = r.dec
               /\ acc' = acc \o r.out
               /\ last' = [op |-> "finalize", out_len |-> out_len,
                           out |-> r.out, pre |-> decoder.output]
        /\ calls' = calls + 1
        /\ UNCHANGED <<sig, unitVars>>

NextWords == WordsProcess \/ WordsFinalize

SpecWords == Init /\ [][NextWords]_vars

\* seq neither starts with a space nor holds two spaces in a row.
SingleSpaced(seq) ==
    /\ Len(seq) > 0 => seq[1] # " "
    /\ \A i \in 1..(Len(seq) - 1) : ~(seq[i] = " " /\ seq[i + 1] = " ")

\* C37: the decoder's concatenated output over any sequence of
\* process/finalize calls never starts with a space and never contains two
\* consecutive spaces: a space is written only immediately after at least
\* one character of a released word in the same output_filter_feed call.
C37_SingleSpaced ==
    /\ SingleSpaced(acc)
    /\ last.op \in {"process", "finalize"} => SingleSpaced(last.out)

\* Two words have been released, each followed by its space.
C37_WitnessTwoSpaces ==
    /\ Len(acc) >= 5
    /\ acc[3] = " "
    /\ acc[Len(acc)] = " "
    /\ last.op = "process"

\* The last call released a word: it wrote bytes, or it was a finalize call
\* on a filter that held a word it does not suppress.
WordReleased ==
    /\ last.op \in {"process", "finalize"}
    /\ \/ last.out # <<>>
       \/ /\ last.op = "finalize"
          /\ last.pre.word_buf # <<>>
          /\ last.pre.warmed_up = 1 \/ ~SuppressWord(last.pre)

\* C38: when a word is released into an output buffer too small to hold it,
\* the characters that do not fit are discarded: word_len is reset to 0 (and
\* warmed_up is latched) regardless of how many bytes were written, so the
\* remainder of the word is never emitted by any later process or finalize
\* call.
C38_RemainderDiscarded ==
    /\ (WordReleased /\ (last.op = "finalize" \/ Len(last.out) = last.out_len))
         => /\ decoder.output.word_buf = <<>>
            /\ decoder.output.warmed_up = 1
    /\ last.op = "finalize" => decoder.pattern = <<>>

\* A process call with room for one byte released a word of at least two
\* characters, one of them buffered before the call: one T was written and
\* nothing is left in the filter.
C38_WitnessWordCut ==
    /\ last.op = "process"
    /\ last.out_len = 1
    /\ last.out = <<"T">>
    /\ last.pre.word_buf = <<"T">>
    /\ last.pre.warmed_up = 0
    /\ decoder.output.word_buf = <<>>
    /\ decoder.output.warmed_up = 1

\* A finalize call with no room released a word: nothing was written, the
\* word is gone and warmed_up is latched.
FinalizeWithoutRoom ==
    /\ last.op = "finalize" /\ last.out_len = 0
    /\ Len(last.pre.word_buf) >= 2
    /\ last.pre.warmed_up = 0
    /\ decoder.output.word_buf = <<>>
    /\ decoder.output.warmed_up = 1

(***************************************************************************)
(* hamlib_missing.c: the FIFO of the rig                                   *)
(*                                                                         *)
(* FIFO_RIG is [data, head, tail, flush, mutex]; data is indexed from 0    *)
(* and holds chars (-128..127), mutex is the thread that holds it or 0.    *)
(* A message is the sequence of its bytes (1..255) before the terminator.  *)
(***************************************************************************)

HAMLIB_FIFO_SIZE == 1024

\* (char)b of a byte b, and (unsigned char)c of a char c
ToChar(b) == IF b >= 128 THEN b - 256 ELSE b

ToUnsignedChar(c) == c % 256

\* void initFIFO(FIFO_RIG *fifo)
initFIFO ==
    [data |-> [i \in 0..(HAMLIB_FIFO_SIZE - 1) |-> 0],
     head |-> 0, tail |-> 0, flush |-> 0, mutex |-> 0]

\* void resetFIFO(FIFO_RIG *fifo), between lock and unlock
resetFIFO(fifo) == [fifo EXCEPT !.head = 0, !.tail = 0, !.flush = 0]

\* if (next == fifo->tail) of hl_push
RingFull_never(next, tail) == FALSE

RingFull(next, tail) == next = tail

\* The counts k at which the loop of hl_push ends: the terminator, or a
\* ring found full before byte k + 1 is stored.
LoopEnds(fifo, msg) ==
    {k \in 0..Len(msg) :
        \/ k = Len(msg)
        \/ RingFull((fifo.head + k + 1) % HAMLIB_FIFO_SIZE, fifo.tail)}

\* The bytes of msg that the loop of hl_push stores: it ends the first time
\* it can.
Stored(fifo, msg) ==
    CHOOSE k \in LoopEnds(fifo, msg) : \A j \in LoopEnds(fifo, msg) : k <= j

\* The ring after the loop of hl_push has stored the first k bytes of msg
\* from head on.
PushStored(fifo, msg, k) ==
    [fifo EXCEPT
       !.data = [i \in 0..(HAMLIB_FIFO_SIZE - 1) |->
                   IF (i - fifo.head) % HAMLIB_FIFO_SIZE < k
                   THEN ToChar(msg[((i - fifo.head) % HAMLIB_FIFO_SIZE) + 1])
                   ELSE fifo.data[i]],
       !.head = (fifo.head + k) % HAMLIB_FIFO_SIZE]

\* The return of hl_push after k bytes: [fifo, ret]
PushReturn(fifo, msg, k) ==
    [fifo |-> PushStored(fifo, msg, k),
     ret |-> IF k = Len(msg) THEN 0 ELSE -1]

\* int hl_push(FIFO_RIG *fifo, const char *msg), between lock and unlock:
\* [fifo, ret]
hl_push(fifo, msg) == PushReturn(fifo, msg, Stored(fifo, msg))

\* int hl_pop(FIFO_RIG *fifo), between lock and unlock: [fifo, ret]
hl_pop(fifo) ==
    IF fifo.head = fifo.tail THEN [fifo |-> fifo, ret |-> -1]
    ELSE [fifo |-> [fifo EXCEPT !.tail = (fifo.tail + 1) % HAMLIB_FIFO_SIZE],
          ret |-> ToUnsignedChar(fifo.data[fifo.tail])]

\* int hl_peek(FIFO_RIG *fifo), between lock and unlock: [fifo, ret]
hl_peek(fifo) ==
    IF fifo.head = fifo.tail THEN [fifo |-> fifo, ret |-> -1]
    ELSE [fifo |-> fifo, ret |-> ToUnsignedChar(fifo.data[fifo.tail])]

(***************************************************************************)
(* SpecFifo: two threads call hl_push, hl_pop, hl_peek and resetFIFO on    *)
(* one FIFO.  sig is the FIFO, last the call each thread is in (idle,      *)
(* waiting for the mutex, or holding it with the body done), calls the     *)
(* number of calls begun.  acc is the queue of the bytes accepted and not  *)
(* yet read, kept independently of the ring: at most 1023 bytes, appended  *)
(* by a push, shortened by a pop, emptied by a reset.                      *)
(***************************************************************************)

\* Calls begun in a behaviour.
MaxFifoCalls == 4

Threads == {1, 2}

\* Messages of 1, 3 and 1022 bytes; byte i of a message of n bytes is
\* 1 + (n + i) % 255, so bytes above 127 occur.
FifoMsgLens == {1, 3, 1022}

FifoMsg(n) == [i \in 1..n |-> 1 + ((n + i) % 255)]

FifoOps == {[op |-> "push", msg |-> FifoMsg(n)] : n \in FifoMsgLens}
             \cup {[op |-> "pop", msg |-> <<>>], [op |-> "peek", msg |-> <<>>],
                   [op |-> "reset", msg |-> <<>>]}

ThreadIdle == [pc |-> "idle", op |-> "none", msg |-> <<>>, ret |-> 0,
               expect |-> 0, before |-> 0]

InitFifo ==
    /\ sig = initFIFO
    /\ last = [t \in Threads |-> ThreadIdle]
    /\ acc = <<>>
    /\ calls = 0
    /\ decoder = cw_decoder_create(cfg)
    /\ UnitIdle

\* A thread begins a call and waits for the mutex.
FifoCall ==
    \E t \in Threads, o \in FifoOps :
        /\ calls < MaxFifoCalls
        /\ last[t].pc = "idle"
        /\ last' = [last EXCEPT ![t] = [ThreadIdle EXCEPT !.pc = "wait",
                                                          !.op = o.op,
                                                          !.msg = o.msg]]
        /\ calls' = calls + 1
        /\ UNCHANGED <<sig, acc, decoder, unitVars>>

\* The body of the call of a thread that holds the mutex: [fifo, ret]
FifoBody(fifo, c) ==
    CASE c.op = "push"  -> hl_push(fifo, c.msg)
      [] c.op = "pop"   -> hl_pop(fifo)
      [] c.op = "peek"  -> hl_peek(fifo)
      [] c.op = "reset" -> [fifo |-> resetFIFO(fifo), ret |-> 0]

\* The queue after the call c: a push appends the bytes that fit into 1023,
\* a pop removes the oldest byte, a reset all.
QueueAfter(q, c) ==
    CASE c.op = "push"  -> q \o SubSeq(c.msg, 1, Min(Len(c.msg),
                                                      HAMLIB_FIFO_SIZE - 1 - Len(q)))
      [] c.op = "pop"   -> IF q = <<>> THEN q ELSE Tail(q)
      [] c.op = "peek"  -> q
      [] c.op = "reset" -> <<>>

\* What the queue has the call c return.
QueueReturns(q, c) ==
    CASE c.op = "push"  -> IF Len(q) + Len(c.msg) <= HAMLIB_FIFO_SIZE - 1
                           THEN 0 ELSE -1
      [] c.op = "pop"   -> IF q = <<>> THEN -1 ELSE Head(q)
      [] c.op = "peek"  -> IF q = <<>> THEN -1 ELSE Head(q)
      [] c.op = "reset" -> 0

\* pthread_mutex_lock returns and the thread runs the body of its call.
FifoEnter ==
    \E t \in Threads :
        /\ last[t].pc = "wait"
        /\ sig.mutex = 0
        /\ \E r \in {FifoBody(sig, last[t])} :
               /\ sig' = [r.fifo EXCEPT !.mutex = t]
               /\ last' = [last EXCEPT ![t].pc = "in", ![t].ret = r.ret,
                                       ![t].expect = QueueReturns(acc, last[t]),
                                       ![t].before = Len(acc)]
        /\ acc' = QueueAfter(acc, last[t])
        /\ UNCHANGED <<calls, decoder, unitVars>>

\* pthread_mutex_unlock and return.
FifoLeave ==
    \E t \in Threads :
        /\ last[t].pc = "in"
        /\ sig' = [sig EXCEPT !.mutex = 0]
        /\ last' = [last EXCEPT ![t].pc = "idle"]
        /\ UNCHANGED <<calls, acc, decoder, unitVars>>

NextFifo == FifoCall \/ FifoEnter \/ FifoLeave

SpecFifo == InitFifo /\ [][NextFifo]_vars

\* The bytes held by the ring.
Held == (sig.head - sig.tail) % HAMLIB_FIFO_SIZE

\* C39: under any interleaving of hl_push, hl_pop, hl_peek and resetFIFO from
\* several threads, head and tail stay in [0, 1024), at most 1023 bytes are
\* held, unread bytes are never overwritten, and bytes are popped in the
\* order they were enqueued; a push that finds the ring full part-way
\* through a message returns -1 with the bytes already enqueued left in the
\* FIFO.
C39_FifoIsQueue ==
    /\ sig.head \in 0..(HAMLIB_FIFO_SIZE - 1)
    /\ sig.tail \in 0..(HAMLIB_FIFO_SIZE - 1)
    /\ Held = Len(acc)
    /\ Len(acc) <= HAMLIB_FIFO_SIZE - 1
    /\ \A i \in 1..Len(acc) :
         ToUnsignedChar(sig.data[(sig.tail + i - 1) % HAMLIB_FIFO_SIZE]) = acc[i]
    /\ \A t \in Threads :
         /\ last[t].pc \in {"in", "idle"} => last[t].ret = last[t].expect
         /\ (last[t].pc = "in" /\ last[t].op = "push" /\ last[t].ret = -1)
              => /\ Len(acc) = HAMLIB_FIFO_SIZE - 1
                 /\ SubSeq(acc, last[t].before + 1, Len(acc))
                      = SubSeq(last[t].msg, 1, Len(acc) - last[t].before)

\* A push of three bytes found the ring full after its second byte and
\* returned -1 while the other thread was waiting for the mutex; the ring
\* has wrapped.
C39_WitnessFullPartWay ==
    \E t \in Threads, u \in Threads :
        /\ last[t].pc = "in" /\ last[t].op = "push" /\ last[t].ret = -1
        /\ Len(last[t].msg) = 3
        /\ last[t].before = HAMLIB_FIFO_SIZE - 3
        /\ last[u].pc = "wait"
        /\ sig.head < sig.tail

====
